---------------------------- MODULE Spec2Model ----------------------------
(***************************************************************************)
(* Collabapp: the server side of the ordered list/task protocol.           *)
(*                                                                         *)
(* The store holds boards, lists and tasks (mongoose documents).  Every    *)
(* HTTP request is handled by an async Express handler; each `await` of a  *)
(* store call is one step of the handler, so the states between two store  *)
(* calls are states of the model, and a store call may reject (the handler *)
(* then answers 500 from its catch block).                                 *)
(*                                                                         *)
(* Spec        requests as the client sends them, dispatched by the        *)
(*             Express routers in registration order (one request at a     *)
(*             time).                                                      *)
(* SpecHandler the handlers invoked directly with validated arguments,     *)
(*             one at a time (what a test of a handler does).              *)
(* SpecConc    two handler invocations whose store calls interleave.       *)
(***************************************************************************)
EXTENDS Integers, Sequences, FiniteSets, TLC

\* ------------------------------------------------------------------ bounds
MaxRequests == 2        \* requests received in one behaviour
MaxNewPosition == 1     \* largest newPosition a move request carries
MaxTaskIds == 3         \* longest taskIds array a reorder request carries

\* ------------------------------------------------------- program constants
ActivityCap == 50
FeedCap == 50

\* -------------------------------------------------------------- universes
TaskIds == {"T1", "T2", "T3"}
ListIds == {"L1", "L2"}
BoardIds == {"B1", "B2"}
NoSuchList == "L0"      \* a well-formed ObjectId that names no document
NoSuchBoard == "B0"
NoSuchInvitation == "I0"
Users == {"owner", "member", "viewer", "stranger"}
NoSuchUser == "nobody"  \* an email, a username or an id of no user
Slots == {1, 2}

InvIds == {"I1", "I2"}
Null == [null |-> TRUE]             \* findById found nothing / no document
NoId == ""                          \* an absent (undefined) id or string
NoInt == -1                         \* an absent (undefined) integer

VARIABLES lists, tasks, boards, req, hist, sessions, invitations

vars == <<lists, tasks, boards, req, hist, sessions, invitations>>

\* ---------------------------------------------------------------- helpers
Range(s) == {s[i] : i \in 1..Len(s)}

Min(a, b) == IF a < b THEN a ELSE b

NoDup(s) == \A i, j \in 1..Len(s) : i # j => s[i] # s[j]

\* 24-hex-digit ids; the path segment "reorder" is not one.
IsObjectId(x) == x \in TaskIds \cup ListIds \cup BoardIds \cup {NoSuchList} \cup Users
                        \cup {NoSuchBoard, NoSuchInvitation, NoSuchUser, "I1", "I2"}

\* listSchema.methods.removeTask: tasks.filter(task => task !== taskId)
removeTask(arr, taskId) == SelectSeq(arr, LAMBDA t : t # taskId)

\* An insertion one place too far: after the element at start.
spliceAfter(arr, start, item) ==
    LET k == Min(start + 1, Len(arr))
    IN  SubSeq(arr, 1, k) \o <<item>> \o SubSeq(arr, k + 1, Len(arr))

\* Array.prototype.splice(start, 0, item): start beyond the end is the end.
splice(arr, start, item) ==
    LET k == Min(start, Len(arr))
    IN  SubSeq(arr, 1, k) \o <<item>> \o SubSeq(arr, k + 1, Len(arr))

addTask(arr, taskId) == IF taskId \in Range(arr) THEN arr ELSE Append(arr, taskId)

isMember(board, userId) ==
    (\E i \in 1..Len(board.members) : board.members[i].user = userId)
    \/ board.owner = userId

getUserRole(board, userId) ==
    IF board.owner = userId THEN "owner"
    ELSE IF \E i \in 1..Len(board.members) : board.members[i].user = userId
         THEN LET i == CHOOSE i \in 1..Len(board.members) :
                           /\ board.members[i].user = userId
                           /\ \A j \in 1..(i - 1) : board.members[j].user # userId
              IN  board.members[i].role
         ELSE "none"

\* A log that truncates at the wrong end: it keeps the oldest entries.
addActivityKeepOldest(board, userId, action) ==
    LET a == <<[user |-> userId, action |-> action]>> \o board.activity
    IN  [board EXCEPT !.activity =
            IF Len(a) > ActivityCap THEN SubSeq(a, 2, ActivityCap + 1) ELSE a]

\* boardSchema.methods.addActivity: unshift, then slice(0, 50)
addActivity(board, userId, action) ==
    LET a == <<[user |-> userId, action |-> action]>> \o board.activity
    IN  [board EXCEPT !.activity =
            IF Len(a) > ActivityCap THEN SubSeq(a, 1, ActivityCap) ELSE a]

\* boardSchema.pre('save'): the owner is filtered out of members.
preSave(board) ==
    [board EXCEPT !.members = SelectSeq(board.members, LAMBDA m : m.user # board.owner)]

\* A next position that repeats the greatest one.
getNextPositionRepeats(listId) ==
    LET ps == {tasks[t].position : t \in {t \in TaskIds : tasks[t] # Null /\ tasks[t].list = listId}}
    IN  IF ps = {} THEN 0 ELSE CHOOSE p \in ps : \A q \in ps : q <= p

\* The ids a newly inserted document can get: an ObjectId is generated once,
\* so no stored document refers to it.
FreshTaskIds ==
    {t \in TaskIds : /\ tasks[t] = Null
                      /\ \A l \in ListIds : lists[l] # Null => t \notin Range(lists[l].tasks)}

FreshListIds ==
    {l \in ListIds : /\ lists[l] = Null
                      /\ \A t \in TaskIds : tasks[t] # Null => tasks[t].list # l
                      /\ \A b \in BoardIds : l \notin Range(boards[b].lists)}

\* Task.getNextPosition: findOne({list}).sort({position: -1})
getNextPosition(listId) ==
    LET ps == {tasks[t].position : t \in {t \in TaskIds : tasks[t] # Null /\ tasks[t].list = listId}}
    IN  IF ps = {} THEN 0 ELSE (CHOOSE p \in ps : \A q \in ps : q <= p) + 1

\* listSchema.statics.getNextPosition: findOne({board}).sort({position: -1})
listGetNextPosition(boardId) ==
    LET ps == {lists[l].position : l \in {l \in ListIds : lists[l] # Null /\ lists[l].board = boardId}}
    IN  IF ps = {} THEN 0 ELSE (CHOOSE p \in ps : \A q \in ps : q <= p) + 1

\* ------------------------------------------------------------------- Init
TaskSeq == <<"T1", "T2", "T3">>

\* The tasks placed in list l, in creation order, positions 0..n-1: a state
\* that task creation alone produces.
InitTasksOf(place, l) == SelectSeq(TaskSeq, LAMBDA t : place[t] = l)

\* T1 and T2 were created in L1; T3 was created in L2 or does not exist yet.
InitPlaces == {p \in [TaskIds -> ListIds \cup {NoId}] :
                  p["T1"] = "L1" /\ p["T2"] = "L1" /\ p["T3"] \in {"L2", NoId}}

IndexOf(arr, x) == CHOOSE i \in 1..Len(arr) : arr[i] = x

InitBoard ==
    [owner |-> "owner",
     members |-> <<[user |-> "member", role |-> "member"],
                   [user |-> "viewer", role |-> "viewer"]>>,
     lists |-> <<"L1", "L2">>,
     activity |-> <<>>,
     isArchived |-> FALSE,
     v |-> 0]

EmptyBody ==
    [sourceListId |-> NoId, destinationListId |-> NoId, newPosition |-> NoInt,
     listId |-> NoId, taskIds |-> <<>>, boardId |-> NoId, listIds |-> <<>>,
     title |-> NoId, position |-> NoInt, user |-> NoId, role |-> NoId]

IdleReq ==
    [pc |-> "idle", handler |-> "none", request |-> Null, user |-> NoId, id |-> NoId,
     body |-> EmptyBody, task |-> Null, board |-> Null, list |-> Null,
     sourceList |-> Null, destinationList |-> Null, position |-> NoInt,
     pending |-> {}, oldTitle |-> NoId, created |-> NoId, pre |-> Null, status |-> 0, message |-> "", emit |-> Null,
     invitation |-> Null, userRole |-> NoId]

\* A second board, of another user, with no members.
OtherBoard ==
    [owner |-> "stranger", members |-> <<>>, lists |-> <<>>, activity |-> <<>>,
     isArchived |-> FALSE, v |-> 0]

\* No invitation was sent yet.
NoInvitations == [i \in InvIds |-> Null]

\* The store after the lists and tasks were created; L2 was created on
\* board boardOfL2.
InitWith(boardOfL2) ==
    /\ \E place \in InitPlaces :
          /\ tasks = [t \in TaskIds |->
                        IF place[t] = NoId THEN Null
                        ELSE [list |-> place[t],
                              board |-> IF place[t] = "L2" THEN boardOfL2 ELSE "B1",
                              title |-> "a",
                              position |-> IndexOf(InitTasksOf(place, place[t]), t) - 1]]
          /\ lists = [l \in ListIds |->
                        [board |-> IF l = "L2" THEN boardOfL2 ELSE "B1", title |-> "a",
                         tasks |-> InitTasksOf(place, l),
                         position |-> IF l = "L1" \/ boardOfL2 # "B1" THEN 0 ELSE 1,
                         v |-> 0]]
    /\ boards = [b \in BoardIds |->
                    [(IF b = "B1" THEN InitBoard ELSE OtherBoard) EXCEPT
                        !.lists = SelectSeq(<<"L1", "L2">>,
                                            LAMBDA l : b = (IF l = "L2" THEN boardOfL2 ELSE "B1"))]]
    /\ req = [s \in Slots |-> IdleReq]
    /\ invitations = NoInvitations
    /\ hist = [n |-> 0, thrown |-> FALSE, rejected |-> FALSE, ordering |-> TRUE,
               overlapped |-> FALSE, prev |-> Null, added |-> <<>>]

\* A browser session that has no board page open: its socket is in no room.
IdleSession ==
    [user |-> NoId, room |-> NoId, currentBoard |-> Null, boardData |-> Null,
     drag |-> Null, got |-> <<>>, handled |-> 0, activities |-> <<>>,
     confirmed |-> Null, failed |-> FALSE]

\* Both lists on board B1; no board page is open.
Init == InitWith("B1") /\ sessions = [c \in Slots |-> IdleSession]

\* L1 on board B1, L2 on board B2; no board page is open.
InitCross == InitWith("B2") /\ sessions = [c \in Slots |-> IdleSession]

\* ---------------------------------------------------------------- routing
Lit(s) == [k |-> "lit", v |-> s]
Par(n) == [k |-> "par", v |-> n]

\* The routes of a router, in the order the file registers them.
TaskRoutes ==
    << [method |-> "GET",    path |-> <<Par("id")>>,                 handler |-> "tasks.get"],
       [method |-> "PUT",    path |-> <<Par("id")>>,                 handler |-> "tasks.update"],
       [method |-> "DELETE", path |-> <<Par("id")>>,                 handler |-> "tasks.delete"],
       [method |-> "PUT",    path |-> <<Par("id"), Lit("move")>>,    handler |-> "tasks.move"],
       [method |-> "PUT",    path |-> <<Lit("reorder")>>,            handler |-> "tasks.reorder"],
       [method |-> "POST",   path |-> <<Par("id"), Lit("comments")>>, handler |-> "tasks.comment"],
       [method |-> "POST",   path |-> <<Par("id"), Lit("assign")>>,  handler |-> "tasks.assign"],
       [method |-> "DELETE", path |-> <<Par("id"), Lit("assign"), Par("userId")>>,
                                                                     handler |-> "tasks.unassign"] >>

ListRoutes ==
    << [method |-> "POST",   path |-> <<>>,                          handler |-> "lists.create"],
       [method |-> "GET",    path |-> <<Lit("board"), Par("boardId"), Lit("archived")>>,
                                                                     handler |-> "lists.archived"],
       [method |-> "GET",    path |-> <<Lit("board"), Par("boardId")>>, handler |-> "lists.byBoard"],
       [method |-> "PUT",    path |-> <<Par("id")>>,                 handler |-> "lists.update"],
       [method |-> "DELETE", path |-> <<Par("id")>>,                 handler |-> "lists.delete"],
       [method |-> "POST",   path |-> <<Par("id"), Lit("tasks")>>,   handler |-> "lists.createTask"],
       [method |-> "PUT",    path |-> <<Par("id"), Lit("archive")>>, handler |-> "lists.archive"],
       [method |-> "PUT",    path |-> <<Lit("reorder")>>,            handler |-> "lists.reorder"] >>

BoardRoutes ==
    << [method |-> "GET",    path |-> <<>>,                          handler |-> "boards.list"],
       [method |-> "POST",   path |-> <<>>,                          handler |-> "boards.create"],
       [method |-> "GET",    path |-> <<Par("id")>>,                 handler |-> "boards.get"],
       [method |-> "PUT",    path |-> <<Par("id")>>,                 handler |-> "boards.update"],
       [method |-> "DELETE", path |-> <<Par("id")>>,                 handler |-> "boards.delete"],
       [method |-> "POST",   path |-> <<Par("id"), Lit("members")>>, handler |-> "boards.addMember"],
       [method |-> "PUT",    path |-> <<Par("id"), Lit("members"), Par("userId")>>,
                                                                     handler |-> "boards.updateMember"],
       [method |-> "DELETE", path |-> <<Par("id"), Lit("members"), Par("userId")>>,
                                                                     handler |-> "boards.removeMember"],
       [method |-> "GET",    path |-> <<Par("id"), Lit("activity")>>, handler |-> "boards.activity"] >>

InvitationRoutes ==
    << [method |-> "POST",   path |-> <<>>,                          handler |-> "invitations.create"],
       [method |-> "GET",    path |-> <<Lit("received")>>,           handler |-> "invitations.received"],
       [method |-> "GET",    path |-> <<Lit("sent")>>,               handler |-> "invitations.sent"],
       [method |-> "PUT",    path |-> <<Par("id"), Lit("accept")>>,  handler |-> "invitations.accept"],
       [method |-> "PUT",    path |-> <<Par("id"), Lit("decline")>>, handler |-> "invitations.decline"],
       [method |-> "DELETE", path |-> <<Par("id")>>,                 handler |-> "invitations.cancel"] >>

Routes(router) ==
    CASE router = "tasks"       -> TaskRoutes
      [] router = "lists"       -> ListRoutes
      [] router = "boards"      -> BoardRoutes
      [] router = "invitations" -> InvitationRoutes

\* A route's path matches segment by segment; a parameter matches any segment.
Match(pattern, path) ==
    /\ Len(pattern) = Len(path)
    /\ \A i \in 1..Len(pattern) : pattern[i].k = "par" \/ pattern[i].v = path[i]

\* Express tries the routes in registration order; the first whose method and
\* path match handles the request (no handler here calls next()).
RouteIndex(router, method, path) ==
    LET tbl == Routes(router)
        hits == {i \in 1..Len(tbl) : tbl[i].method = method /\ Match(tbl[i].path, path)}
    IN  IF hits = {} THEN 0 ELSE CHOOSE i \in hits : \A j \in hits : i <= j

Dispatch(router, method, path) ==
    LET i == RouteIndex(router, method, path)
    IN  IF i = 0 THEN "notFound" ELSE Routes(router)[i].handler

\* req.params.id of the matched route
ParamId(router, method, path) ==
    LET i == RouteIndex(router, method, path)
    IN  IF i # 0 /\ \E k \in 1..Len(path) : Routes(router)[i].path[k] = Par("id")
        THEN path[CHOOSE k \in 1..Len(path) : Routes(router)[i].path[k] = Par("id")]
        ELSE NoId

\* ------------------------------------------------------- request handling
InFlight(s) == req[s].pc \notin {"idle", "done"}

\* The routes of the boards router behind checkBoardAccess(requiredRole).
ProtectedHandlers ==
    {"boards.addMember", "boards.updateMember", "boards.removeMember", "boards.activity"}

FirstPc(handler) ==
    CASE handler = "tasks.move"       -> "move.findTask"
      [] handler = "tasks.reorder"    -> "reorder.findList"
      [] handler = "tasks.update"     -> "update.findTask"
      [] handler = "tasks.delete"     -> "delete.findTask"
      [] handler = "lists.createTask" -> "create.findList"
      [] handler = "lists.update"     -> "listUpdate.findList"
      [] handler = "lists.reorder"    -> "listReorder.findBoard"
      [] handler = "lists.create"     -> "listCreate.findBoard"
      [] handler = "lists.delete"     -> "listDelete.findList"
      [] handler \in ProtectedHandlers -> "access.findBoard"
      [] handler = "invitations.create"  -> "invite.findBoard"
      [] handler = "invitations.accept"  -> "accept.find"
      [] handler = "invitations.decline" -> "decline.find"
      [] handler = "invitations.cancel"  -> "cancel.find"

\* The message of the handler's catch block.
CatchMessage(handler) ==
    CASE handler = "tasks.move"       -> "Server error moving task"
      [] handler = "tasks.reorder"    -> "Server error reordering tasks"
      [] handler = "tasks.update"     -> "Server error updating task"
      [] handler = "tasks.delete"     -> "Server error deleting task"
      [] handler = "lists.createTask" -> "Server error creating task"
      [] handler = "lists.update"     -> "Server error updating list"
      [] handler = "lists.reorder"    -> "Server error reordering lists"
      [] handler = "lists.create"     -> "Server error creating list"
      [] handler = "lists.delete"     -> "Server error deleting list"
      [] handler = "boards.addMember"    -> "Server error adding member"
      [] handler = "boards.updateMember" -> "Server error updating member role"
      [] handler = "boards.removeMember" -> "Server error removing member"
      [] handler = "boards.activity"     -> "Server error retrieving activity"
      [] handler = "invitations.create"  -> "Server error sending invitation"
      [] handler = "invitations.accept"  -> "Server error accepting invitation"
      [] handler = "invitations.decline" -> "Server error declining invitation"
      [] handler = "invitations.cancel"  -> "Server error cancelling invitation"

\* res.status(status).json({message}); emit is the event sent before it.
\* The handler returns: its local variables are gone, the request and the
\* answer stay on record.
Respond(s, status, message, emit) ==
    req' = [req EXCEPT ![s] =
              [IdleReq EXCEPT !.pc = "done", !.handler = req[s].handler,
                              !.request = req[s].request, !.user = req[s].user,
                              !.id = req[s].id, !.body = req[s].body,
                              !.created = req[s].created, !.pre = req[s].pre,
                              !.userRole = req[s].userRole,
                              !.status = status, !.message = message, !.emit = emit]]

\* req.io.to(room).emit(event, payload): socket.io hands the event to every
\* socket that joined the room.
Deliver(ss, e) ==
    [c \in Slots |-> IF ss[c].room = e.room THEN [ss[c] EXCEPT !.got = Append(@, e)]
                     ELSE ss[c]]

\* The event the step of slot s emitted, if it answered with one.
Emit(s) ==
    sessions' = IF req'[s].pc = "done" /\ req'[s].emit # Null
                THEN Deliver(sessions, req'[s].emit)
                ELSE sessions

\* The handlers of task create, move, reorder and delete.
OrderingHandlers == {"lists.createTask", "tasks.move", "tasks.reorder", "tasks.delete"}

\* The move this client was answered 200 for just before its next request
\* (history: the request, and the store as it was when that move started).
Earlier(s) ==
    IF req[s].pc = "done" /\ req[s].handler = "tasks.move" /\ req[s].status = 200
    THEN [handler |-> req[s].handler, id |-> req[s].id, body |-> req[s].body,
          pre |-> req[s].pre]
    ELSE Null

\* The handler starts: the validators passed and its first store call is issued.
Begin(s, request, user, handler, id, body) ==
    /\ ~InFlight(s)
    /\ hist.n < MaxRequests
    /\ req' = [req EXCEPT ![s] =
                 [IdleReq EXCEPT !.pc = FirstPc(handler), !.handler = handler,
                                 !.request = request, !.user = user, !.id = id, !.body = body,
                                 !.pre = [lists |-> lists, tasks |-> tasks,
                                          boards |-> boards,
                                          invitations |-> invitations]]]
    /\ hist' = [hist EXCEPT !.n = @ + 1,
                            !.ordering = @ /\ handler \in OrderingHandlers,
                            !.overlapped = @ \/ \E o \in Slots \ {s} : InFlight(o),
                            !.prev = Earlier(s)]
    /\ UNCHANGED <<lists, tasks, boards, invitations>>

\* The handler's catch block: it logs the error and answers 500.  What the
\* handler wrote before stays written.
Catch(s) ==
    /\ Respond(s, 500, CatchMessage(req[s].handler), Null)
    /\ hist' = [hist EXCEPT !.thrown = TRUE]

\* An awaited store call rejects (connection lost, write refused).
StoreRejects(s) ==
    /\ InFlight(s)
    /\ Respond(s, 500, IF req[s].pc = "access.findBoard"
                       THEN "Server error checking board access"
                       ELSE CatchMessage(req[s].handler), Null)
    /\ hist' = [hist EXCEPT !.thrown = TRUE, !.rejected = TRUE]
    /\ UNCHANGED <<lists, tasks, boards, sessions, invitations>>

\* List.findById
findList(id) ==
    IF id \in ListIds /\ lists[id] # Null
    THEN [id |-> id, board |-> lists[id].board, title |-> lists[id].title,
          tasks |-> lists[id].tasks, position |-> lists[id].position,
          loaded |-> lists[id]]
    ELSE Null

\* Task.findById
findTask(id) ==
    IF id \in TaskIds /\ tasks[id] # Null
    THEN [id |-> id, list |-> tasks[id].list, board |-> tasks[id].board,
          title |-> tasks[id].title, position |-> tasks[id].position]
    ELSE Null

\* list.save(): mongoose writes the paths that were modified; a path set to
\* the value it was loaded with is not modified.  A write of the tasks array
\* carries the version key (__v, on by default: the schemas set no versionKey
\* option) the document was loaded with and increments it.
saveList(doc) ==
    [lists EXCEPT ![doc.id] =
        [@ EXCEPT !.tasks = IF doc.tasks # doc.loaded.tasks THEN doc.tasks ELSE @,
                  !.v = IF doc.tasks # doc.loaded.tasks THEN @ + 1 ELSE @,
                  !.title = IF doc.title # doc.loaded.title THEN doc.title ELSE @,
                  !.position = IF doc.position # doc.loaded.position THEN doc.position ELSE @]]

\* save() of a document whose array changed rejects with a VersionError when
\* the stored version is no longer the one the document was loaded with.
ListConflict(doc) == doc.tasks # doc.loaded.tasks /\ lists[doc.id].v # doc.loaded.v

BoardConflict(id, doc) == boards[id].v # doc.v

\* board.save(): the pre-save hook, then the modified paths (the activity
\* array and, where the handler changed them, the lists and members arrays, under the
\* version key: the stored arrays are the loaded ones when the versions agree).
saveBoard(id, doc) ==
    LET d == preSave(doc)
    IN  [boards EXCEPT ![id] = [@ EXCEPT !.activity = d.activity,
                                        !.lists = d.lists,
                                        !.v = @ + 1,
                                        !.members = d.members]]

\* ------------------------------------------------ PUT /api/tasks/:id/move
MoveFindTask(s) ==
    /\ req[s].pc = "move.findTask"
    /\ LET task == findTask(req[s].id)
       IN  IF task = Null
           THEN Respond(s, 404, "Task not found", Null)
           ELSE req' = [req EXCEPT ![s].task = task, ![s].pc = "move.findBoard"]
    /\ UNCHANGED <<lists, tasks, boards, hist>>
    /\ Emit(s)
    /\ UNCHANGED invitations

MoveFindBoard(s) ==
    /\ req[s].pc = "move.findBoard"
    /\ LET board == boards[req[s].task.board]
       IN  IF ~isMember(board, req[s].user)
           THEN Respond(s, 403, "Access denied", Null)
           ELSE req' = [req EXCEPT ![s].board = board, ![s].pc = "move.findSource"]
    /\ UNCHANGED <<lists, tasks, boards, hist>>
    /\ Emit(s)
    /\ UNCHANGED invitations

MoveFindSource(s) ==
    /\ req[s].pc = "move.findSource"
    /\ req' = [req EXCEPT ![s].sourceList = findList(req[s].body.sourceListId),
                          ![s].pc = "move.findDest"]
    /\ UNCHANGED <<lists, tasks, boards, hist>>
    /\ Emit(s)
    /\ UNCHANGED invitations

\* ... then sourceList.removeTask(task._id) and sourceList.save() is issued
MoveFindDest(s) ==
    /\ req[s].pc = "move.findDest"
    /\ LET destinationList == findList(req[s].body.destinationListId)
           sourceList == req[s].sourceList
       IN  IF sourceList = Null \/ destinationList = Null
           THEN Respond(s, 404, "List not found", Null)
           ELSE req' = [req EXCEPT
                   ![s].destinationList = destinationList,
                   ![s].sourceList = [sourceList EXCEPT
                                        !.tasks = removeTask(sourceList.tasks, req[s].id)],
                   ![s].pc = "move.saveSource"]
    /\ UNCHANGED <<lists, tasks, boards, hist>>
    /\ Emit(s)
    /\ UNCHANGED invitations

\* sourceList.save() lands; destinationList.tasks.splice(newPosition, 0, task._id)
MoveSaveSource(s) ==
    /\ req[s].pc = "move.saveSource"
    /\ IF ListConflict(req[s].sourceList)
       THEN Catch(s) /\ UNCHANGED lists
       ELSE /\ lists' = saveList(req[s].sourceList)
            /\ req' = [req EXCEPT
                    ![s].destinationList.tasks = splice(@, req[s].body.newPosition, req[s].id),
                    ![s].pc = "move.saveDest"]
            /\ UNCHANGED hist
    /\ UNCHANGED <<tasks, boards>>
    /\ Emit(s)
    /\ UNCHANGED invitations

\* destinationList.save() lands; task.list and task.position are set
MoveSaveDest(s) ==
    /\ req[s].pc = "move.saveDest"
    /\ IF ListConflict(req[s].destinationList)
       THEN Catch(s) /\ UNCHANGED lists
       ELSE /\ lists' = saveList(req[s].destinationList)
            /\ req' = [req EXCEPT ![s].task.list = req[s].body.destinationListId,
                                  ![s].task.position = req[s].body.newPosition,
                                  ![s].pc = "move.saveTask"]
            /\ UNCHANGED hist
    /\ UNCHANGED <<tasks, boards>>
    /\ Emit(s)
    /\ UNCHANGED invitations

MovedEvent(r) ==
    [room |-> r.task.board, event |-> "task-moved", userId |-> r.user,
     payload |-> [taskId |-> r.id, sourceListId |-> r.body.sourceListId,
                  destinationListId |-> r.body.destinationListId,
                  newPosition |-> r.body.newPosition]]

\* task.save() lands; a cross-list move records an activity and saves the board
MoveSaveTask(s) ==
    /\ req[s].pc = "move.saveTask"
    /\ tasks[req[s].id] # Null
    /\ tasks' = [tasks EXCEPT ![req[s].id].list = req[s].task.list,
                              ![req[s].id].position = req[s].task.position]
    /\ IF req[s].body.sourceListId # req[s].body.destinationListId
       THEN req' = [req EXCEPT ![s].board = addActivity(@, req[s].user, "moved task"),
                               ![s].pc = "move.saveBoard"]
       ELSE Respond(s, 200, "Task moved successfully", MovedEvent(req[s]))
    /\ UNCHANGED <<lists, boards, hist>>
    /\ Emit(s)
    /\ UNCHANGED invitations

MoveSaveBoard(s) ==
    /\ req[s].pc = "move.saveBoard"
    /\ IF BoardConflict(req[s].task.board, req[s].board)
       THEN Catch(s) /\ UNCHANGED boards
       ELSE /\ boards' = saveBoard(req[s].task.board, req[s].board)
            /\ Respond(s, 200, "Task moved successfully", MovedEvent(req[s]))
            /\ UNCHANGED hist
    /\ UNCHANGED <<lists, tasks>>
    /\ Emit(s)
    /\ UNCHANGED invitations

\* ------------------------------------------------ PUT /api/tasks/reorder
ReorderFindList(s) ==
    /\ req[s].pc = "reorder.findList"
    /\ LET list == findList(req[s].body.listId)
       IN  IF list = Null
           THEN Respond(s, 404, "List not found", Null)
           ELSE req' = [req EXCEPT ![s].list = list, ![s].pc = "reorder.findBoard"]
    /\ UNCHANGED <<lists, tasks, boards, hist>>
    /\ Emit(s)
    /\ UNCHANGED invitations

ReorderFindBoard(s) ==
    /\ req[s].pc = "reorder.findBoard"
    /\ LET board == boards[req[s].list.board]
       IN  IF ~isMember(board, req[s].user)
           THEN Respond(s, 403, "Access denied", Null)
           ELSE req' = [req EXCEPT ![s].board = board, ![s].pc = "reorder.findTasks"]
    /\ UNCHANGED <<lists, tasks, boards, hist>>
    /\ Emit(s)
    /\ UNCHANGED invitations

\* Task.find({_id: {$in: taskIds}, list: listId}): the matching documents
TasksFound(taskIds, listId) ==
    {t \in Range(taskIds) : t \in TaskIds /\ tasks[t] # Null /\ tasks[t].list = listId}

\* tasks.length !== taskIds.length is the whole validation; then one
\* findByIdAndUpdate per index is issued, all at once, and Promise.all awaited.
\* With no update to wait for, list.tasks = taskIds and list.save() is issued.
ReorderFindTasks(s) ==
    /\ req[s].pc = "reorder.findTasks"
    /\ LET taskIds == req[s].body.taskIds
       IN  IF Cardinality(TasksFound(taskIds, req[s].body.listId)) # Len(taskIds)
           THEN Respond(s, 400, "Some tasks do not exist or do not belong to this list", Null)
           ELSE IF taskIds = <<>>
           THEN req' = [req EXCEPT ![s].list.tasks = taskIds, ![s].pc = "reorder.saveList"]
           ELSE req' = [req EXCEPT ![s].pending = 1..Len(taskIds),
                                   ![s].pc = "reorder.updatePositions"]
    /\ UNCHANGED <<lists, tasks, boards, hist>>
    /\ Emit(s)
    /\ UNCHANGED invitations

\* Positions numbered from one.
PositionOfIndexOneBased(i) == i

\* The position written for the task at (1-based) index i of taskIds:
\* findByIdAndUpdate(taskId, { position: index }) with the 0-based map index.
PositionOfIndex(i) == i - 1

\* Task.findByIdAndUpdate(taskIds[i], {position: index}) lands; the updates
\* were issued together and land in any order.  When the last has landed
\* Promise.all resolves: list.tasks = taskIds and list.save() is issued.
ReorderUpdateOne(s) ==
    /\ req[s].pc = "reorder.updatePositions"
    /\ \E i \in req[s].pending :
          /\ tasks' = [tasks EXCEPT ![req[s].body.taskIds[i]] =
                          IF @ = Null THEN @ ELSE [@ EXCEPT !.position = PositionOfIndex(i)]]
          /\ IF req[s].pending = {i}
             THEN req' = [req EXCEPT ![s].pending = {},
                                     ![s].list.tasks = req[s].body.taskIds,
                                     ![s].pc = "reorder.saveList"]
             ELSE req' = [req EXCEPT ![s].pending = @ \ {i}]
    /\ UNCHANGED <<lists, boards, hist>>
    /\ Emit(s)
    /\ UNCHANGED invitations

ReorderSaveList(s) ==
    /\ req[s].pc = "reorder.saveList"
    /\ IF ListConflict(req[s].list)
       THEN Catch(s) /\ UNCHANGED lists
       ELSE /\ lists' = saveList(req[s].list)
            /\ Respond(s, 200, "Tasks reordered successfully",
                       [room |-> req[s].list.board, event |-> "tasks-reordered",
                        userId |-> req[s].user,
                        payload |-> [listId |-> req[s].body.listId,
                                     taskIds |-> req[s].body.taskIds]])
            /\ UNCHANGED hist
    /\ UNCHANGED <<tasks, boards>>
    /\ Emit(s)
    /\ UNCHANGED invitations

\* ----------------------------------------------------- PUT /api/tasks/:id
\* Task.findById(id) casts id to an ObjectId and rejects when it is none.
UpdateFindTask(s) ==
    /\ req[s].pc = "update.findTask"
    /\ IF ~IsObjectId(req[s].id)
       THEN Catch(s)
       ELSE /\ LET task == findTask(req[s].id)
               IN  IF task = Null
                   THEN Respond(s, 404, "Task not found", Null)
                   ELSE req' = [req EXCEPT ![s].task = task, ![s].pc = "update.findBoard"]
            /\ UNCHANGED hist
    /\ UNCHANGED <<lists, tasks, boards>>
    /\ Emit(s)
    /\ UNCHANGED invitations

\* ... then the fields of the body are set and task.save() is issued
UpdateFindBoard(s) ==
    /\ req[s].pc = "update.findBoard"
    /\ LET board == boards[req[s].task.board]
       IN  IF ~isMember(board, req[s].user)
           THEN Respond(s, 403, "Access denied", Null)
           ELSE req' = [req EXCEPT
                   ![s].board = board,
                   ![s].oldTitle = req[s].task.title,
                   ![s].task.title = IF req[s].body.title # NoId THEN req[s].body.title ELSE @,
                   ![s].pc = "update.saveTask"]
    /\ UNCHANGED <<lists, tasks, boards, hist>>
    /\ Emit(s)
    /\ UNCHANGED invitations

UpdatedEvent(r) ==
    [room |-> r.task.board, event |-> "task-updated", userId |-> r.user,
     payload |-> [taskId |-> r.id, listId |-> r.task.list]]

UpdateSaveTask(s) ==
    /\ req[s].pc = "update.saveTask"
    /\ tasks[req[s].id] # Null
    /\ tasks' = [tasks EXCEPT ![req[s].id].title = req[s].task.title]
    /\ IF req[s].body.title # NoId /\ req[s].body.title # req[s].oldTitle
       THEN req' = [req EXCEPT ![s].board = addActivity(@, req[s].user, "updated task"),
                               ![s].pc = "update.saveBoard"]
       ELSE Respond(s, 200, "Task updated successfully", UpdatedEvent(req[s]))
    /\ UNCHANGED <<lists, boards, hist>>
    /\ Emit(s)
    /\ UNCHANGED invitations

UpdateSaveBoard(s) ==
    /\ req[s].pc = "update.saveBoard"
    /\ IF BoardConflict(req[s].task.board, req[s].board)
       THEN Catch(s) /\ UNCHANGED boards
       ELSE /\ boards' = saveBoard(req[s].task.board, req[s].board)
            /\ Respond(s, 200, "Task updated successfully", UpdatedEvent(req[s]))
            /\ UNCHANGED hist
    /\ UNCHANGED <<lists, tasks>>
    /\ Emit(s)
    /\ UNCHANGED invitations

\* -------------------------------------------------- DELETE /api/tasks/:id
DeleteFindTask(s) ==
    /\ req[s].pc = "delete.findTask"
    /\ LET task == findTask(req[s].id)
       IN  IF task = Null
           THEN Respond(s, 404, "Task not found", Null)
           ELSE req' = [req EXCEPT ![s].task = task, ![s].pc = "delete.findBoard"]
    /\ UNCHANGED <<lists, tasks, boards, hist>>
    /\ Emit(s)
    /\ UNCHANGED invitations

DeleteFindBoard(s) ==
    /\ req[s].pc = "delete.findBoard"
    /\ LET board == boards[req[s].task.board]
       IN  IF ~isMember(board, req[s].user)
           THEN Respond(s, 403, "Access denied", Null)
           ELSE req' = [req EXCEPT ![s].board = board, ![s].pc = "delete.findList"]
    /\ UNCHANGED <<lists, tasks, boards, hist>>
    /\ Emit(s)
    /\ UNCHANGED invitations

\* List.findById(task.list); if (list) { list.removeTask(task._id); list.save() }
\* else board.addActivity(...) and board.save() is issued
DeleteFindList(s) ==
    /\ req[s].pc = "delete.findList"
    /\ LET list == findList(req[s].task.list)
       IN  IF list # Null
           THEN req' = [req EXCEPT
                   ![s].list = [list EXCEPT !.tasks = removeTask(list.tasks, req[s].id)],
                   ![s].pc = "delete.saveList"]
           ELSE req' = [req EXCEPT ![s].board = addActivity(@, req[s].user, "deleted task"),
                                   ![s].pc = "delete.saveBoard"]
    /\ UNCHANGED <<lists, tasks, boards, hist>>
    /\ Emit(s)
    /\ UNCHANGED invitations

DeleteSaveList(s) ==
    /\ req[s].pc = "delete.saveList"
    /\ IF ListConflict(req[s].list)
       THEN Catch(s) /\ UNCHANGED lists
       ELSE /\ lists' = saveList(req[s].list)
            /\ req' = [req EXCEPT ![s].board = addActivity(@, req[s].user, "deleted task"),
                                  ![s].pc = "delete.saveBoard"]
            /\ UNCHANGED hist
    /\ UNCHANGED <<tasks, boards>>
    /\ Emit(s)
    /\ UNCHANGED invitations

DeleteSaveBoard(s) ==
    /\ req[s].pc = "delete.saveBoard"
    /\ IF BoardConflict(req[s].task.board, req[s].board)
       THEN Catch(s) /\ UNCHANGED boards
       ELSE /\ boards' = saveBoard(req[s].task.board, req[s].board)
            /\ req' = [req EXCEPT ![s].pc = "delete.deleteTask"]
            /\ UNCHANGED hist
    /\ UNCHANGED <<lists, tasks>>
    /\ Emit(s)
    /\ UNCHANGED invitations

\* Task.findByIdAndDelete(task._id)
DeleteTask(s) ==
    /\ req[s].pc = "delete.deleteTask"
    /\ tasks' = [tasks EXCEPT ![req[s].id] = Null]
    /\ Respond(s, 200, "Task deleted successfully",
               [room |-> req[s].task.board, event |-> "task-deleted", userId |-> req[s].user,
                payload |-> [taskId |-> req[s].id, listId |-> req[s].task.list]])
    /\ UNCHANGED <<lists, boards, hist>>
    /\ Emit(s)
    /\ UNCHANGED invitations

\* ------------------------------------------------ POST /api/lists/:id/tasks
CreateFindList(s) ==
    /\ req[s].pc = "create.findList"
    /\ LET list == findList(req[s].id)
       IN  IF list = Null
           THEN Respond(s, 404, "List not found", Null)
           ELSE req' = [req EXCEPT ![s].list = list, ![s].pc = "create.findBoard"]
    /\ UNCHANGED <<lists, tasks, boards, hist>>
    /\ Emit(s)
    /\ UNCHANGED invitations

CreateFindBoard(s) ==
    /\ req[s].pc = "create.findBoard"
    /\ LET board == boards[req[s].list.board]
       IN  IF ~isMember(board, req[s].user)
           THEN Respond(s, 403, "Access denied", Null)
           ELSE req' = [req EXCEPT ![s].board = board, ![s].pc = "create.nextPosition"]
    /\ UNCHANGED <<lists, tasks, boards, hist>>
    /\ Emit(s)
    /\ UNCHANGED invitations

\* Task.getNextPosition(list._id) resolves; new Task({...}); task.save() is issued
CreateNextPosition(s) ==
    /\ req[s].pc = "create.nextPosition"
    /\ req' = [req EXCEPT ![s].position = getNextPosition(req[s].list.id),
                          ![s].pc = "create.saveTask"]
    /\ UNCHANGED <<lists, tasks, boards, hist>>
    /\ Emit(s)
    /\ UNCHANGED invitations

\* task.save() inserts the task under a fresh id; list.addTask(task._id)
CreateSaveTask(s) ==
    /\ req[s].pc = "create.saveTask"
    /\ \E t \in FreshTaskIds :
          /\ tasks' = [tasks EXCEPT ![t] =
                          [list |-> req[s].list.id, board |-> req[s].list.board,
                           title |-> req[s].body.title, position |-> req[s].position]]
          /\ req' = [req EXCEPT ![s].created = t,
                                ![s].list.tasks = addTask(@, t),
                                ![s].pc = "create.saveList"]
    /\ UNCHANGED <<lists, boards, hist>>
    /\ Emit(s)
    /\ UNCHANGED invitations

\* list.save() after addTask: the push is sent as $push, which appends to the
\* stored array and increments the version without comparing it.
CreateSaveList(s) ==
    /\ req[s].pc = "create.saveList"
    /\ lists' = IF req[s].list.tasks # req[s].list.loaded.tasks
                THEN [lists EXCEPT ![req[s].list.id].tasks = Append(@, req[s].created),
                                   ![req[s].list.id].v = @ + 1]
                ELSE lists
    /\ req' = [req EXCEPT ![s].board = addActivity(@, req[s].user, "created task"),
                          ![s].pc = "create.saveBoard"]
    /\ UNCHANGED <<tasks, boards, hist>>
    /\ Emit(s)
    /\ UNCHANGED invitations

CreateSaveBoard(s) ==
    /\ req[s].pc = "create.saveBoard"
    /\ IF BoardConflict(req[s].list.board, req[s].board)
       THEN Catch(s) /\ UNCHANGED boards
       ELSE /\ boards' = saveBoard(req[s].list.board, req[s].board)
            /\ Respond(s, 201, "Task created successfully",
                       [room |-> req[s].list.board, event |-> "task-created", userId |-> req[s].user,
                        payload |-> [taskId |-> req[s].created, listId |-> req[s].list.id]])
            /\ UNCHANGED hist
    /\ UNCHANGED <<lists, tasks>>
    /\ Emit(s)
    /\ UNCHANGED invitations

\* ----------------------------------------------------- PUT /api/lists/:id
\* List.findById(id) casts id to an ObjectId and rejects when it is none.
ListUpdateFindList(s) ==
    /\ req[s].pc = "listUpdate.findList"
    /\ IF ~IsObjectId(req[s].id)
       THEN Catch(s)
       ELSE /\ LET list == findList(req[s].id)
               IN  IF list = Null
                   THEN Respond(s, 404, "List not found", Null)
                   ELSE req' = [req EXCEPT ![s].list = list, ![s].pc = "listUpdate.findBoard"]
            /\ UNCHANGED hist
    /\ UNCHANGED <<lists, tasks, boards>>
    /\ Emit(s)
    /\ UNCHANGED invitations

\* ... then title and position of the body are set and list.save() is issued
ListUpdateFindBoard(s) ==
    /\ req[s].pc = "listUpdate.findBoard"
    /\ LET board == boards[req[s].list.board]
       IN  IF ~isMember(board, req[s].user)
           THEN Respond(s, 403, "Access denied", Null)
           ELSE req' = [req EXCEPT
                   ![s].board = board,
                   ![s].oldTitle = req[s].list.title,
                   ![s].list.title = IF req[s].body.title # NoId THEN req[s].body.title ELSE @,
                   ![s].list.position =
                       IF req[s].body.position # NoInt THEN req[s].body.position ELSE @,
                   ![s].pc = "listUpdate.saveList"]
    /\ UNCHANGED <<lists, tasks, boards, hist>>
    /\ Emit(s)
    /\ UNCHANGED invitations

ListUpdatedEvent(r) ==
    [room |-> r.list.board, event |-> "list-updated", userId |-> r.user,
     payload |-> [listId |-> r.id]]

ListUpdateSaveList(s) ==
    /\ req[s].pc = "listUpdate.saveList"
    /\ lists' = saveList(req[s].list)
    /\ IF req[s].body.title # NoId /\ req[s].body.title # req[s].oldTitle
       THEN req' = [req EXCEPT ![s].board = addActivity(@, req[s].user, "updated list"),
                               ![s].pc = "listUpdate.saveBoard"]
       ELSE Respond(s, 200, "List updated successfully", ListUpdatedEvent(req[s]))
    /\ UNCHANGED <<tasks, boards, hist>>
    /\ Emit(s)
    /\ UNCHANGED invitations

ListUpdateSaveBoard(s) ==
    /\ req[s].pc = "listUpdate.saveBoard"
    /\ IF BoardConflict(req[s].list.board, req[s].board)
       THEN Catch(s) /\ UNCHANGED boards
       ELSE /\ boards' = saveBoard(req[s].list.board, req[s].board)
            /\ Respond(s, 200, "List updated successfully", ListUpdatedEvent(req[s]))
            /\ UNCHANGED hist
    /\ UNCHANGED <<lists, tasks>>
    /\ Emit(s)
    /\ UNCHANGED invitations

\* ------------------------------------------------- PUT /api/lists/reorder
ListsReorderedEvent(r) ==
    [room |-> r.body.boardId, event |-> "lists-reordered", userId |-> r.user,
     payload |-> [boardId |-> r.body.boardId, listIds |-> r.body.listIds]]

\* Board.findById(boardId); then one List.findByIdAndUpdate per index is
\* issued, all at once, and Promise.all awaited.
ListReorderFindBoard(s) ==
    /\ req[s].pc = "listReorder.findBoard"
    /\ LET id == req[s].body.boardId
       IN  IF id \notin BoardIds \/ ~isMember(boards[id], req[s].user)
           THEN Respond(s, 403, "Access denied", Null)
           ELSE IF req[s].body.listIds = <<>>
           THEN Respond(s, 200, "Lists reordered successfully", ListsReorderedEvent(req[s]))
           ELSE req' = [req EXCEPT ![s].board = boards[id],
                                   ![s].pending = 1..Len(req[s].body.listIds),
                                   ![s].pc = "listReorder.updatePositions"]
    /\ UNCHANGED <<lists, tasks, boards, hist>>
    /\ Emit(s)
    /\ UNCHANGED invitations

\* List.findByIdAndUpdate(listIds[i], {position: index}) lands
ListReorderUpdateOne(s) ==
    /\ req[s].pc = "listReorder.updatePositions"
    /\ \E i \in req[s].pending :
          /\ lists' = IF req[s].body.listIds[i] \in ListIds
                         /\ lists[req[s].body.listIds[i]] # Null
                      THEN [lists EXCEPT ![req[s].body.listIds[i]].position = PositionOfIndex(i)]
                      ELSE lists
          /\ IF req[s].pending = {i}
             THEN Respond(s, 200, "Lists reordered successfully", ListsReorderedEvent(req[s]))
             ELSE req' = [req EXCEPT ![s].pending = @ \ {i}]
    /\ UNCHANGED <<tasks, boards, hist>>
    /\ Emit(s)
    /\ UNCHANGED invitations

\* ----------------------------------------------------------- POST /api/lists
\* Board.findById(boardId); with an explicit position no further read is made
ListCreateFindBoard(s) ==
    /\ req[s].pc = "listCreate.findBoard"
    /\ IF req[s].body.boardId \notin BoardIds
       THEN Respond(s, 404, "Board not found", Null)
       ELSE IF ~isMember(boards[req[s].body.boardId], req[s].user)
       THEN Respond(s, 403, "Access denied - you are not a member of this board", Null)
       ELSE req' = [req EXCEPT ![s].board = boards[req[s].body.boardId],
                               ![s].position = req[s].body.position,
                               ![s].pc = IF req[s].body.position # NoInt
                                         THEN "listCreate.saveList"
                                         ELSE "listCreate.nextPosition"]
    /\ UNCHANGED <<lists, tasks, boards, hist>>
    /\ Emit(s)
    /\ UNCHANGED invitations

\* List.getNextPosition(boardId) resolves; new List({...}); list.save() is issued
ListCreateNextPosition(s) ==
    /\ req[s].pc = "listCreate.nextPosition"
    /\ req' = [req EXCEPT ![s].position = listGetNextPosition(req[s].body.boardId),
                          ![s].pc = "listCreate.saveList"]
    /\ UNCHANGED <<lists, tasks, boards, hist>>
    /\ Emit(s)
    /\ UNCHANGED invitations

\* list.save() inserts the list under a fresh id; board.lists.push(list._id);
\* board.addActivity(...)
ListCreateSaveList(s) ==
    /\ req[s].pc = "listCreate.saveList"
    /\ \E l \in FreshListIds :
          /\ lists' = [lists EXCEPT ![l] =
                          [board |-> req[s].body.boardId, title |-> req[s].body.title,
                           tasks |-> <<>>, position |-> req[s].position, v |-> 0]]
          /\ req' = [req EXCEPT ![s].created = l,
                                ![s].board = addActivity([@ EXCEPT !.lists = Append(@, l)],
                                                         req[s].user, "created list"),
                                ![s].pc = "listCreate.saveBoard"]
    /\ UNCHANGED <<tasks, boards, hist>>
    /\ Emit(s)
    /\ UNCHANGED invitations

ListCreateSaveBoard(s) ==
    /\ req[s].pc = "listCreate.saveBoard"
    /\ IF BoardConflict(req[s].body.boardId, req[s].board)
       THEN Catch(s) /\ UNCHANGED boards
       ELSE /\ boards' = saveBoard(req[s].body.boardId, req[s].board)
            /\ Respond(s, 201, "List created successfully",
                       [room |-> req[s].body.boardId, event |-> "list-created",
                        userId |-> req[s].user,
                        payload |-> [listId |-> req[s].created]])
            /\ UNCHANGED hist
    /\ UNCHANGED <<lists, tasks>>
    /\ Emit(s)
    /\ UNCHANGED invitations

\* ------------------------------------------------------ DELETE /api/lists/:id
\* A deletion that stops at the first task it finds.
deleteOne(ts, listId) ==
    LET found == {t \in TaskIds : ts[t] # Null /\ ts[t].list = listId}
    IN  IF found = {} THEN ts
        ELSE [ts EXCEPT ![CHOOSE t \in found : \A u \in found : IndexOf(TaskSeq, t) <= IndexOf(TaskSeq, u)] = Null]

\* Task.deleteMany({list: listId})
deleteMany(ts, listId) ==
    [t \in TaskIds |-> IF ts[t] # Null /\ ts[t].list = listId THEN Null ELSE ts[t]]

ListDeleteFindList(s) ==
    /\ req[s].pc = "listDelete.findList"
    /\ LET list == findList(req[s].id)
       IN  IF list = Null
           THEN Respond(s, 404, "List not found", Null)
           ELSE req' = [req EXCEPT ![s].list = list, ![s].pc = "listDelete.findBoard"]
    /\ UNCHANGED <<lists, tasks, boards, hist>>
    /\ Emit(s)
    /\ UNCHANGED invitations

\* Board.findById(list.board); isMember; getUserRole must be admin or owner;
\* Task.deleteMany({list: list._id}) is issued
ListDeleteFindBoard(s) ==
    /\ req[s].pc = "listDelete.findBoard"
    /\ LET board == boards[req[s].list.board]
       IN  IF ~isMember(board, req[s].user)
           THEN Respond(s, 403, "Access denied", Null)
           ELSE IF getUserRole(board, req[s].user) \notin {"admin", "owner"}
           THEN Respond(s, 403, "Access denied - admin role required", Null)
           ELSE req' = [req EXCEPT ![s].board = board, ![s].pc = "listDelete.deleteTasks"]
    /\ UNCHANGED <<lists, tasks, boards, hist>>
    /\ Emit(s)
    /\ UNCHANGED invitations

\* Task.deleteMany({list}) resolves; board.lists = board.lists.filter(...);
\* board.addActivity(...); board.save() is issued
ListDeleteTasks(s) ==
    /\ req[s].pc = "listDelete.deleteTasks"
    /\ tasks' = deleteMany(tasks, req[s].list.id)
    /\ req' = [req EXCEPT ![s].board =
                              addActivity([@ EXCEPT !.lists =
                                              SelectSeq(@, LAMBDA l : l # req[s].list.id)],
                                          req[s].user, "deleted list"),
                          ![s].pc = "listDelete.saveBoard"]
    /\ UNCHANGED <<lists, boards, hist>>
    /\ Emit(s)
    /\ UNCHANGED invitations

\* board.save() resolves; List.findByIdAndDelete(list._id) is issued
ListDeleteSaveBoard(s) ==
    /\ req[s].pc = "listDelete.saveBoard"
    /\ IF BoardConflict(req[s].list.board, req[s].board)
       THEN Catch(s) /\ UNCHANGED boards
       ELSE /\ boards' = saveBoard(req[s].list.board, req[s].board)
            /\ req' = [req EXCEPT ![s].pc = "listDelete.deleteList"]
            /\ UNCHANGED hist
    /\ UNCHANGED <<lists, tasks>>
    /\ Emit(s)
    /\ UNCHANGED invitations

\* List.findByIdAndDelete resolves; the event is emitted and the answer sent
ListDeleteList(s) ==
    /\ req[s].pc = "listDelete.deleteList"
    /\ lists' = [lists EXCEPT ![req[s].list.id] = Null]
    /\ Respond(s, 200, "List deleted successfully",
               [room |-> req[s].list.board, event |-> "list-deleted", userId |-> req[s].user,
                payload |-> [listId |-> req[s].list.id]])
    /\ UNCHANGED <<tasks, boards, hist>>
    /\ Emit(s)
    /\ UNCHANGED invitations

\* ------------------------------------------------- board access and members

\* Board.findById
findBoard(id) == IF id \in BoardIds THEN boards[id] ELSE Null

\* A level table that ranks member above admin.
roleHierarchyMemberFirst(role) ==
    CASE role = "viewer" -> 1
      [] role = "admin"  -> 2
      [] role = "member" -> 3
      [] role = "owner"  -> 4
      [] OTHER           -> 0

\* roleHierarchy[role] || 0
roleHierarchy(role) ==
    CASE role = "viewer" -> 1
      [] role = "member" -> 2
      [] role = "admin"  -> 3
      [] role = "owner"  -> 4
      [] OTHER           -> 0

\* checkBoardAccess(requiredRole): the answer it sends, or status 0 for next().
checkBoardAccess(requiredRole, board, userId) ==
    LET userRole == IF board = Null THEN "none" ELSE getUserRole(board, userId)
        requiredLevel == IF roleHierarchy(requiredRole) = 0 THEN 1
                         ELSE roleHierarchy(requiredRole)
    IN  IF board = Null
        THEN [status |-> 404, message |-> "Board not found"]
        ELSE IF board.isArchived
        THEN [status |-> 403, message |-> "Board is archived"]
        ELSE IF userRole = "none"
        THEN [status |-> 403,
              message |-> "Access denied - you are not a member of this board"]
        ELSE IF roleHierarchy(userRole) < requiredLevel
        THEN [status |-> 403,
              message |-> IF requiredRole = "admin"
                          THEN "Access denied - admin role required"
                          ELSE "Access denied - viewer role required"]
        ELSE [status |-> 0, message |-> ""]

RequiredRole(handler) == IF handler = "boards.activity" THEN "viewer" ELSE "admin"

\* An addMember that does not look for the user in the members array.
\* An addMember that does not look for an existing entry of the user.
addMemberAgain(board, userId, role) ==
    IF board.owner # userId
    THEN [board EXCEPT !.members = Append(@, [user |-> userId, role |-> role])]
    ELSE board

\* boardSchema.methods.addMember
addMember(board, userId, role) ==
    IF ~(\E i \in 1..Len(board.members) : board.members[i].user = userId)
       /\ board.owner # userId
    THEN [board EXCEPT !.members = Append(@, [user |-> userId, role |-> role])]
    ELSE board

\* boardSchema.methods.removeMember
removeMember(board, userId) ==
    [board EXCEPT !.members = SelectSeq(@, LAMBDA m : m.user # userId)]

\* The middleware of the protected routes, and on next() the handler up to
\* its first await: PUT and DELETE /:id/members/:userId check the target.
\* A check that finds no user to be the owner.
OwnerNeverTargeted(board, userId) == FALSE

\* board.owner.toString() === userId, the owner check of PUT and DELETE
\* /:id/members/:userId
OwnerTargeted(board, userId) == board.owner = userId

BoardAccess(s) ==
    /\ req[s].pc = "access.findBoard"
    /\ LET board == findBoard(req[s].id)
           verdict == checkBoardAccess(RequiredRole(req[s].handler), board, req[s].user)
           h == req[s].handler
           passed == [req[s] EXCEPT !.board = board,
                                    !.userRole = getUserRole(board, req[s].user)]
           answer(status, message) ==
               [IdleReq EXCEPT !.pc = "done", !.handler = h,
                               !.request = req[s].request, !.user = req[s].user,
                               !.id = req[s].id, !.body = req[s].body,
                               !.pre = req[s].pre, !.userRole = passed.userRole,
                               !.status = status, !.message = message]
       IN  IF verdict.status # 0
           THEN Respond(s, verdict.status, verdict.message, Null)
           ELSE IF h \in {"boards.addMember", "boards.activity"}
           THEN req' = [req EXCEPT ![s] =
                           [passed EXCEPT !.pc = IF h = "boards.activity"
                                                 THEN "member.populate"
                                                 ELSE "member.findUser"]]
           ELSE LET userId == req[s].request.path[3]
                IN  IF ~isMember(board, userId)
                    THEN req' = [req EXCEPT ![s] =
                                    answer(400, "User is not a member of this board")]
                    ELSE IF OwnerTargeted(board, userId)
                    THEN req' = [req EXCEPT ![s] =
                                    answer(400, IF h = "boards.updateMember"
                                                THEN "Cannot update board owner role"
                                                ELSE "Cannot remove board owner")]
                    ELSE IF /\ h = "boards.updateMember"
                            /\ ~(\E i \in 1..Len(board.members) :
                                    board.members[i].user = userId)
                    THEN req' = [req EXCEPT ![s] = answer(400, "Member not found")]
                    ELSE req' = [req EXCEPT ![s] =
                            [passed EXCEPT
                                !.pc = "member.findUser",
                                !.board = IF h = "boards.updateMember"
                                          THEN [board EXCEPT !.members =
                                                  [i \in 1..Len(board.members) |->
                                                     IF board.members[i].user = userId
                                                     THEN [board.members[i] EXCEPT
                                                             !.role = req[s].body.role]
                                                     ELSE board.members[i]]]
                                          ELSE board]]
    /\ UNCHANGED <<lists, tasks, boards, hist, invitations>>
    /\ Emit(s)

\* User.findOne({email}) / User.findById(userId) resolves; the handler changes
\* the board document and issues board.save()
MemberFindUser(s) ==
    /\ req[s].pc = "member.findUser"
    /\ LET h == req[s].handler
           board == req[s].board
       IN  IF h = "boards.addMember"
           THEN IF req[s].body.user \notin Users
                THEN Respond(s, 404, "User not found with this email", Null)
                ELSE IF isMember(board, req[s].body.user)
                THEN Respond(s, 400, "User is already a member of this board", Null)
                ELSE req' = [req EXCEPT
                        ![s].board = addActivity(
                              addMember(board, req[s].body.user,
                                        IF req[s].body.role = NoId THEN "member"
                                        ELSE req[s].body.role),
                              req[s].user, "added member"),
                        ![s].pc = "member.saveBoard"]
           ELSE IF h = "boards.updateMember"
           THEN req' = [req EXCEPT
                        ![s].board = addActivity(board, req[s].user, "updated member role"),
                        ![s].pc = "member.saveBoard"]
           ELSE req' = [req EXCEPT
                        ![s].board = addActivity(removeMember(board, req[s].request.path[3]),
                                                 req[s].user, "removed member"),
                        ![s].pc = "member.saveBoard"]
    /\ UNCHANGED <<lists, tasks, boards, hist, invitations>>
    /\ Emit(s)

\* board.save() resolves; DELETE answers, POST and PUT issue board.populate
MemberSaveBoard(s) ==
    /\ req[s].pc = "member.saveBoard"
    /\ IF BoardConflict(req[s].id, req[s].board)
       THEN Catch(s) /\ UNCHANGED boards
       ELSE /\ boards' = saveBoard(req[s].id, req[s].board)
            /\ IF req[s].handler = "boards.removeMember"
               THEN Respond(s, 200, "Member removed successfully",
                            [room |-> req[s].id, event |-> "member-removed",
                             userId |-> req[s].user,
                             payload |-> [removedUserId |-> req[s].request.path[3]]])
               ELSE req' = [req EXCEPT ![s].pc = "member.populate"]
            /\ UNCHANGED hist
    /\ UNCHANGED <<lists, tasks, invitations>>
    /\ Emit(s)

\* board.populate(...) resolves; the event is emitted and the answer sent
MemberPopulate(s) ==
    /\ req[s].pc = "member.populate"
    /\ LET h == req[s].handler
       IN  IF h = "boards.activity"
           THEN Respond(s, 200, "Activity retrieved successfully", Null)
           ELSE IF h = "boards.addMember"
           THEN Respond(s, 200, "Member added successfully",
                        [room |-> req[s].id, event |-> "member-added",
                         userId |-> req[s].user,
                         payload |-> [newMember |-> req[s].body.user]])
           ELSE Respond(s, 200, "Member role updated successfully",
                        [room |-> req[s].id, event |-> "member-role-updated",
                         userId |-> req[s].user,
                         payload |-> [userId |-> req[s].request.path[3],
                                      newRole |-> req[s].body.role]])
    /\ UNCHANGED <<lists, tasks, boards, hist, invitations>>
    /\ Emit(s)

\* ---------------------------------------------------------- invitations
\* Invitation.findById
findInvitation(id) == IF id \in InvIds THEN invitations[id] ELSE Null

\* The unique index on {board, invitee, status}: the write of doc under id
\* collides with another stored invitation of the same three values.
DuplicateKey(id, doc) ==
    \E j \in InvIds \ {id} :
        /\ invitations[j] # Null
        /\ invitations[j].board = doc.board
        /\ invitations[j].invitee = doc.invitee
        /\ invitations[j].status = doc.status

\* POST /api/invitations: Board.findById(boardId), then the permission check
InviteFindBoard(s) ==
    /\ req[s].pc = "invite.findBoard"
    /\ LET board == findBoard(req[s].body.boardId)
       IN  IF board = Null
           THEN Respond(s, 404, "Board not found", Null)
           ELSE IF getUserRole(board, req[s].user) = "none"
                   \/ (getUserRole(board, req[s].user) # "admin"
                       /\ board.owner # req[s].user)
           THEN Respond(s, 403,
                        "You do not have permission to invite members to this board", Null)
           ELSE req' = [req EXCEPT ![s].board = board, ![s].pc = "invite.findUser"]
    /\ UNCHANGED <<lists, tasks, boards, hist, invitations>>
    /\ Emit(s)

\* User.findOne({username}) resolves
InviteFindUser(s) ==
    /\ req[s].pc = "invite.findUser"
    /\ LET invitee == req[s].body.user
       IN  IF invitee \notin Users
           THEN Respond(s, 404, "User not found", Null)
           ELSE IF invitee = req[s].user
           THEN Respond(s, 400, "You cannot invite yourself", Null)
           ELSE IF isMember(req[s].board, invitee)
           THEN Respond(s, 400, "User is already a member of this board", Null)
           ELSE req' = [req EXCEPT ![s].pc = "invite.exists"]
    /\ UNCHANGED <<lists, tasks, boards, hist, invitations>>
    /\ Emit(s)

\* Invitation.exists(boardId, invitee._id) resolves; new Invitation({...});
\* invitation.save() is issued
InviteExists(s) ==
    /\ req[s].pc = "invite.exists"
    /\ IF \E i \in InvIds : /\ invitations[i] # Null
                            /\ invitations[i].board = req[s].body.boardId
                            /\ invitations[i].invitee = req[s].body.user
                            /\ invitations[i].status = "pending"
       THEN Respond(s, 400, "Invitation already sent to this user", Null)
       ELSE req' = [req EXCEPT
                ![s].invitation = [board |-> req[s].body.boardId, inviter |-> req[s].user,
                                   invitee |-> req[s].body.user,
                                   role |-> IF req[s].body.role = NoId THEN "member"
                                            ELSE req[s].body.role,
                                   status |-> "pending", expired |-> FALSE],
                ![s].pc = "invite.save"]
    /\ UNCHANGED <<lists, tasks, boards, hist, invitations>>
    /\ Emit(s)

\* invitation.save() inserts the invitation under a fresh id
InviteSave(s) ==
    /\ req[s].pc = "invite.save"
    /\ \E i \in InvIds :
          /\ invitations[i] = Null
          /\ IF DuplicateKey(i, req[s].invitation)
             THEN Catch(s) /\ UNCHANGED invitations
             ELSE /\ invitations' = [invitations EXCEPT ![i] = req[s].invitation]
                  /\ req' = [req EXCEPT ![s].created = i, ![s].pc = "invite.populate"]
                  /\ UNCHANGED hist
    /\ UNCHANGED <<lists, tasks, boards>>
    /\ Emit(s)

\* invitation.populate(...) resolves
InvitePopulate(s) ==
    /\ req[s].pc = "invite.populate"
    /\ Respond(s, 201, "Invitation sent successfully",
               [room |-> req[s].body.user, event |-> "invitation-received",
                userId |-> req[s].user, payload |-> [invitation |-> req[s].created]])
    /\ UNCHANGED <<lists, tasks, boards, hist, invitations>>
    /\ Emit(s)

\* A check that only stops an invitation that was accepted.
NotYetAccepted(invitation) == invitation.status # "accepted"

\* invitation.status !== 'pending' is the refusal of accept, decline and cancel
StillPending(invitation) == invitation.status = "pending"

\* PUT /api/invitations/:id/accept: Invitation.findById(id).populate('board')
\* resolves; the checks; invitation.accept(); invitation.save() is issued
AcceptFind(s) ==
    /\ req[s].pc = "accept.find"
    /\ LET invitation == findInvitation(req[s].id)
       IN  IF invitation = Null
           THEN Respond(s, 404, "Invitation not found", Null)
           ELSE IF invitation.invitee # req[s].user
           THEN Respond(s, 403, "You are not authorized to accept this invitation", Null)
           ELSE IF ~StillPending(invitation)
           THEN Respond(s, 400, "Invitation is no longer pending", Null)
           ELSE IF invitation.expired
           THEN Respond(s, 400, "Invitation has expired", Null)
           ELSE req' = [req EXCEPT
                    ![s].invitation = [invitation EXCEPT !.status = "accepted"],
                    ![s].board = boards[invitation.board],
                    ![s].pc = "accept.saveInvitation"]
    /\ UNCHANGED <<lists, tasks, boards, hist, invitations>>
    /\ Emit(s)

\* invitation.save() resolves; board.addMember(req.user._id, invitation.role);
\* board.save() is issued.  A save of a document nothing was pushed to
\* writes nothing: the handler goes on to addActivity and the second save.
AcceptSaveInvitation(s) ==
    /\ req[s].pc = "accept.saveInvitation"
    /\ IF DuplicateKey(req[s].id, req[s].invitation)
       THEN Catch(s) /\ UNCHANGED invitations
       ELSE /\ invitations' = [invitations EXCEPT ![req[s].id] = req[s].invitation]
            /\ LET joined == addMember(req[s].board, req[s].user, req[s].invitation.role)
               IN  req' = [req EXCEPT
                      ![s].board = IF joined = req[s].board
                                   THEN addActivity(joined, req[s].user, "joined board")
                                   ELSE joined,
                      ![s].pc = IF joined = req[s].board THEN "accept.saveActivity"
                                ELSE "accept.saveMember"]
            /\ UNCHANGED hist
    /\ UNCHANGED <<lists, tasks, boards>>
    /\ Emit(s)

\* the first board.save() resolves; board.addActivity(...); the second
\* board.save() is issued
AcceptSaveMember(s) ==
    /\ req[s].pc = "accept.saveMember"
    /\ LET id == req[s].invitation.board
       IN  IF BoardConflict(id, req[s].board)
           THEN Catch(s) /\ UNCHANGED boards
           ELSE /\ boards' = saveBoard(id, req[s].board)
                /\ req' = [req EXCEPT
                      ![s].board = addActivity([preSave(@) EXCEPT !.v = @ + 1],
                                               req[s].user, "joined board"),
                      ![s].pc = "accept.saveActivity"]
                /\ UNCHANGED hist
    /\ UNCHANGED <<lists, tasks, invitations>>
    /\ Emit(s)

\* the second board.save() resolves; the events are emitted, the answer sent
AcceptSaveActivity(s) ==
    /\ req[s].pc = "accept.saveActivity"
    /\ LET id == req[s].invitation.board
       IN  IF BoardConflict(id, req[s].board)
           THEN Catch(s) /\ UNCHANGED boards
           ELSE /\ boards' = saveBoard(id, req[s].board)
                /\ Respond(s, 200, "Invitation accepted successfully",
                           [room |-> id, event |-> "member-joined", userId |-> req[s].user,
                            payload |-> [role |-> req[s].invitation.role]])
                /\ UNCHANGED hist
    /\ UNCHANGED <<lists, tasks, invitations>>
    /\ Emit(s)

\* PUT /api/invitations/:id/decline
DeclineFind(s) ==
    /\ req[s].pc = "decline.find"
    /\ LET invitation == findInvitation(req[s].id)
       IN  IF invitation = Null
           THEN Respond(s, 404, "Invitation not found", Null)
           ELSE IF invitation.invitee # req[s].user
           THEN Respond(s, 403, "You are not authorized to decline this invitation", Null)
           ELSE IF ~StillPending(invitation)
           THEN Respond(s, 400, "Invitation is no longer pending", Null)
           ELSE req' = [req EXCEPT
                    ![s].invitation = [invitation EXCEPT !.status = "declined"],
                    ![s].pc = "decline.save"]
    /\ UNCHANGED <<lists, tasks, boards, hist, invitations>>
    /\ Emit(s)

DeclineSave(s) ==
    /\ req[s].pc = "decline.save"
    /\ IF DuplicateKey(req[s].id, req[s].invitation)
       THEN Catch(s) /\ UNCHANGED invitations
       ELSE /\ invitations' = [invitations EXCEPT ![req[s].id] = req[s].invitation]
            /\ Respond(s, 200, "Invitation declined successfully",
                       [room |-> req[s].invitation.inviter, event |-> "invitation-declined",
                        userId |-> req[s].user, payload |-> [invitation |-> req[s].id]])
            /\ UNCHANGED hist
    /\ UNCHANGED <<lists, tasks, boards>>
    /\ Emit(s)

\* DELETE /api/invitations/:id
CancelFind(s) ==
    /\ req[s].pc = "cancel.find"
    /\ LET invitation == findInvitation(req[s].id)
       IN  IF invitation = Null
           THEN Respond(s, 404, "Invitation not found", Null)
           ELSE IF invitation.inviter # req[s].user
           THEN Respond(s, 403, "You are not authorized to cancel this invitation", Null)
           ELSE IF ~StillPending(invitation)
           THEN Respond(s, 400, "Only pending invitations can be cancelled", Null)
           ELSE req' = [req EXCEPT
                    ![s].invitation = [invitation EXCEPT !.status = "cancelled"],
                    ![s].pc = "cancel.save"]
    /\ UNCHANGED <<lists, tasks, boards, hist, invitations>>
    /\ Emit(s)

CancelSave(s) ==
    /\ req[s].pc = "cancel.save"
    /\ IF DuplicateKey(req[s].id, req[s].invitation)
       THEN Catch(s) /\ UNCHANGED invitations
       ELSE /\ invitations' = [invitations EXCEPT ![req[s].id] = req[s].invitation]
            /\ Respond(s, 200, "Invitation cancelled successfully", Null)
            /\ UNCHANGED hist
    /\ UNCHANGED <<lists, tasks, boards>>
    /\ Emit(s)

\* The clock passes the expiresAt of a pending invitation.
TimePasses ==
    /\ \E i \in InvIds :
          /\ invitations[i] # Null
          /\ invitations[i].status = "pending" /\ ~invitations[i].expired
          /\ invitations' = [invitations EXCEPT ![i].expired = TRUE]
    /\ UNCHANGED <<lists, tasks, boards, req, hist, sessions>>

\* ----------------------------------------------------------- the requests
ListArgs == ListIds \cup {NoSuchList}

TaskIdSeqs == UNION {[1..n -> TaskIds] : n \in 0..MaxTaskIds}

ListIdSeqs == UNION {[1..n -> ListIds] : n \in 0..Cardinality(ListIds)}

Titles == {NoId, "a", "b"}

\* taskService.moveTask / reorderTasks / updateTask / deleteTask and
\* listService.createTask / updateList / reorderLists: what each sends.
MoveRequests ==
    {[router |-> "tasks", method |-> "PUT", path |-> <<t, "move">>,
      body |-> [EmptyBody EXCEPT !.sourceListId = a, !.destinationListId = b,
                                 !.newPosition = n]] :
        t \in TaskIds, a \in ListArgs, b \in ListArgs, n \in 0..MaxNewPosition}

ReorderRequests ==
    {[router |-> "tasks", method |-> "PUT", path |-> <<"reorder">>,
      body |-> [EmptyBody EXCEPT !.listId = l, !.taskIds = ts]] :
        l \in ListArgs, ts \in TaskIdSeqs}

UpdateRequests ==
    {[router |-> "tasks", method |-> "PUT", path |-> <<t>>,
      body |-> [EmptyBody EXCEPT !.title = x]] : t \in TaskIds, x \in Titles}

DeleteRequests ==
    {[router |-> "tasks", method |-> "DELETE", path |-> <<t>>, body |-> EmptyBody] :
        t \in TaskIds}

CreateRequests ==
    {[router |-> "lists", method |-> "POST", path |-> <<l, "tasks">>,
      body |-> [EmptyBody EXCEPT !.title = "a"]] : l \in ListArgs}

ListUpdateRequests ==
    {[router |-> "lists", method |-> "PUT", path |-> <<l>>,
      body |-> [EmptyBody EXCEPT !.title = x]] : l \in ListArgs, x \in Titles}

ListReorderRequests ==
    {[router |-> "lists", method |-> "PUT", path |-> <<"reorder">>,
      body |-> [EmptyBody EXCEPT !.boardId = b, !.listIds = ls]] :
        b \in BoardIds, ls \in ListIdSeqs}

ClientRequests ==
    MoveRequests \cup ReorderRequests \cup UpdateRequests \cup DeleteRequests
    \cup CreateRequests \cup ListUpdateRequests \cup ListReorderRequests

\* A task can be created while the universe has an unused id.
\* listService.createList / deleteList
ListCreateRequests ==
    {[router |-> "lists", method |-> "POST", path |-> <<>>,
      body |-> [EmptyBody EXCEPT !.title = "a", !.boardId = b, !.position = p]] :
        b \in BoardIds, p \in {NoInt} \cup 0..MaxNewPosition}

ListDeleteRequests ==
    {[router |-> "lists", method |-> "DELETE", path |-> <<l>>, body |-> EmptyBody] :
        l \in ListArgs}

\* The model has an id left for the document the handler may insert.
CanBegin(handler) ==
    /\ handler = "lists.createTask" => FreshTaskIds # {}
    /\ handler = "lists.create" => FreshListIds # {}

\* The Express app receives a request: the router picks the handler.
ReceiveOf(s, users, requests) ==
    /\ ~InFlight(s)
    /\ hist.n < MaxRequests
    /\ \E user \in users, r \in requests :
        /\ CanBegin(Dispatch(r.router, r.method, r.path))
        /\ Begin(s, [router |-> r.router, method |-> r.method, path |-> r.path], user,
                 Dispatch(r.router, r.method, r.path),
                 ParamId(r.router, r.method, r.path), r.body)
    /\ UNCHANGED sessions

Receive(s) == ReceiveOf(s, Users, ClientRequests)

\* The handler a request is meant for, called directly with its parameters.
HandlerFor(r) ==
    LET tbl == Routes(r.router)
        i == CHOOSE i \in 1..Len(tbl) :
                 /\ tbl[i].method = r.method
                 /\ Match(tbl[i].path, r.path)
                 /\ \A k \in 1..Len(r.path) : tbl[i].path[k].k = "lit" <=> ~IsObjectId(r.path[k])
    IN  tbl[i].handler

InvokeOf(s, users, requests) ==
    /\ ~InFlight(s)
    /\ hist.n < MaxRequests
    /\ \E user \in users, r \in requests :
        /\ CanBegin(HandlerFor(r))
        /\ Begin(s, [router |-> r.router, method |-> r.method, path |-> r.path], user,
                 HandlerFor(r), IF IsObjectId(r.path[1]) THEN r.path[1] ELSE NoId, r.body)
    /\ UNCHANGED sessions

Invoke(s) == InvokeOf(s, Users, ClientRequests)

\* A board member moves and reorders tasks of existing lists.
InvokeMember(s) ==
    InvokeOf(s, {"member"},
             {r \in MoveRequests \cup ReorderRequests :
                 NoSuchList \notin {r.body.sourceListId, r.body.destinationListId, r.body.listId}})

MoveStep(s) ==
    \/ MoveFindTask(s) \/ MoveFindBoard(s) \/ MoveFindSource(s) \/ MoveFindDest(s)
    \/ MoveSaveSource(s) \/ MoveSaveDest(s) \/ MoveSaveTask(s) \/ MoveSaveBoard(s)

ReorderStep(s) ==
    \/ ReorderFindList(s) \/ ReorderFindBoard(s) \/ ReorderFindTasks(s)
    \/ ReorderUpdateOne(s) \/ ReorderSaveList(s)

UpdateStep(s) ==
    UpdateFindTask(s) \/ UpdateFindBoard(s) \/ UpdateSaveTask(s) \/ UpdateSaveBoard(s)

DeleteStep(s) ==
    \/ DeleteFindTask(s) \/ DeleteFindBoard(s) \/ DeleteFindList(s)
    \/ DeleteSaveList(s) \/ DeleteSaveBoard(s) \/ DeleteTask(s)

CreateStep(s) ==
    \/ CreateFindList(s) \/ CreateFindBoard(s) \/ CreateNextPosition(s)
    \/ CreateSaveTask(s) \/ CreateSaveList(s) \/ CreateSaveBoard(s)

ListUpdateStep(s) ==
    \/ ListUpdateFindList(s) \/ ListUpdateFindBoard(s)
    \/ ListUpdateSaveList(s) \/ ListUpdateSaveBoard(s)

ListReorderStep(s) == ListReorderFindBoard(s) \/ ListReorderUpdateOne(s)

ListCreateStep(s) ==
    \/ ListCreateFindBoard(s) \/ ListCreateNextPosition(s)
    \/ ListCreateSaveList(s) \/ ListCreateSaveBoard(s)

ListDeleteStep(s) ==
    \/ ListDeleteFindList(s) \/ ListDeleteFindBoard(s) \/ ListDeleteTasks(s)
    \/ ListDeleteSaveBoard(s) \/ ListDeleteList(s)

\* Requests through the routers, one at a time.  No request reaches the two
\* reorder handlers (see NoReorderHandlerRuns), so their steps are not listed.
Next ==
    \/ Receive(1)
    \/ MoveStep(1) \/ UpdateStep(1) \/ DeleteStep(1) \/ CreateStep(1) \/ ListUpdateStep(1)
    \/ StoreRejects(1)

Spec == Init /\ [][Next]_vars

NoReorderHandlerRuns == \A s \in Slots : req[s].handler \notin {"tasks.reorder", "lists.reorder"}

\* Handlers called directly, one at a time.
NextHandler ==
    \/ Invoke(1)
    \/ MoveStep(1) \/ ReorderStep(1) \/ UpdateStep(1) \/ DeleteStep(1) \/ CreateStep(1)
    \/ ListUpdateStep(1) \/ ListReorderStep(1)
    \/ StoreRejects(1)

SpecHandler == Init /\ [][NextHandler]_vars

\* Two handler invocations at a time; every store call succeeds.
NextConc ==
    \E s \in Slots : InvokeMember(s) \/ MoveStep(s) \/ ReorderStep(s)

SpecConc == Init /\ [][NextConc]_vars

\* ------------------------------------------------- the client's Board page
\* The user of each browser session.
SessionUser(c) == IF c = 1 THEN "member" ELSE "owner"

\* What GET /api/boards/:id can return for the lists: List.findByBoard, the
\* board's lists sorted by position, each with its tasks array populated (the
\* existing tasks of the array) sorted by position.  Documents of equal
\* position come in either order.
findByBoard(boardId) ==
    LET ls == {l \in ListIds : lists[l] # Null /\ lists[l].board = boardId}
        Populated(l) == {t \in Range(lists[l].tasks) : tasks[t] # Null}
    IN  {[lists |-> q, tasks |-> f] :
            q \in {q \in ListIdSeqs :
                      /\ NoDup(q) /\ Range(q) = ls
                      /\ \A i, j \in 1..Len(q) :
                            i < j => lists[q[i]].position <= lists[q[j]].position},
            f \in {f \in [ListIds -> TaskIdSeqs] :
                      \A l \in ListIds :
                         IF l \notin ls THEN f[l] = <<>>
                         ELSE /\ NoDup(f[l]) /\ Range(f[l]) = Populated(l)
                              /\ \A i, j \in 1..Len(f[l]) :
                                    i < j => tasks[f[l][i]].position
                                                 <= tasks[f[l][j]].position}}

\* Both sessions have the page of board B1 open: the socket joined the room,
\* fetchBoard was fulfilled and the effect copied currentBoard to boardData.
InitClient ==
    /\ InitWith("B1")
    /\ \E v \in findByBoard("B1") :
          sessions = [c \in Slots |->
                        [IdleSession EXCEPT !.user = SessionUser(c), !.room = "B1",
                                            !.currentBoard = v, !.boardData = v,
                                            !.confirmed = v]]

\* Array.from(arr) with the element at (0-based) index i spliced out and
\* spliced in at index j.
moved(arr, i, j) ==
    LET x == arr[i + 1]
        rest == SubSeq(arr, 1, i) \o SubSeq(arr, i + 2, Len(arr))
    IN  splice(rest, j, x)

\* The drops react-beautiful-dnd can report on the view bd, the early
\* returns of handleDragEnd (no destination, same place) left out.
Drags(bd) ==
    {[type |-> "list", source |-> [droppableId |-> "board", index |-> i],
      destination |-> [droppableId |-> "board", index |-> j], draggableId |-> bd.lists[i + 1]] :
        i \in 0..(Len(bd.lists) - 1), j \in 0..(Len(bd.lists) - 1)}
    \cup
    UNION {{[type |-> "task", source |-> [droppableId |-> a, index |-> i],
             destination |-> [droppableId |-> b, index |-> j],
             draggableId |-> bd.tasks[a][i + 1]] :
               i \in 0..(Len(bd.tasks[a]) - 1),
               j \in 0..(IF a = b THEN Len(bd.tasks[a]) - 1 ELSE Len(bd.tasks[b]))} :
            a \in Range(bd.lists), b \in Range(bd.lists)}

\* The view handleDragEnd sets before it calls the server.
Optimistic(bd, d) ==
    IF d.type = "list"
    THEN [bd EXCEPT !.lists = moved(@, d.source.index, d.destination.index)]
    ELSE IF d.source.droppableId = d.destination.droppableId
    THEN [bd EXCEPT !.tasks[d.source.droppableId] =
                        moved(@, d.source.index, d.destination.index)]
    ELSE [bd EXCEPT !.tasks[d.source.droppableId] =
                        SubSeq(@, 1, d.source.index) \o SubSeq(@, d.source.index + 2, Len(@)),
                    !.tasks[d.destination.droppableId] =
                        splice(@, d.destination.index, d.draggableId)]

\* The request handleDragEnd sends: listService.reorderLists,
\* taskService.reorderTasks or taskService.moveTask.
DragRequest(bd, d) ==
    IF d.type = "list"
    THEN [router |-> "lists", method |-> "PUT", path |-> <<"reorder">>,
          body |-> [EmptyBody EXCEPT !.boardId = "B1",
                                     !.listIds = Optimistic(bd, d).lists]]
    ELSE IF d.source.droppableId = d.destination.droppableId
    THEN [router |-> "tasks", method |-> "PUT", path |-> <<"reorder">>,
          body |-> [EmptyBody EXCEPT !.listId = d.source.droppableId,
                                     !.taskIds = Optimistic(bd, d).tasks[d.source.droppableId]]]
    ELSE [router |-> "tasks", method |-> "PUT", path |-> <<d.draggableId, "move">>,
          body |-> [EmptyBody EXCEPT !.sourceListId = d.source.droppableId,
                                     !.destinationListId = d.destination.droppableId,
                                     !.newPosition = d.destination.index]]

\* handleDragEnd up to its await: the optimistic setBoardData and the request.
DragEnd(c) ==
    /\ sessions[c].boardData # Null /\ sessions[c].drag = Null
    /\ ~InFlight(c)
    /\ hist.n < MaxRequests
    /\ \E d \in Drags(sessions[c].boardData) :
          /\ d.source # d.destination
          /\ LET r == DragRequest(sessions[c].boardData, d)
             IN  Begin(c, [router |-> r.router, method |-> r.method, path |-> r.path],
                       sessions[c].user, Dispatch(r.router, r.method, r.path),
                       ParamId(r.router, r.method, r.path), r.body)
          /\ sessions' = [sessions EXCEPT
                ![c].boardData = Optimistic(sessions[c].boardData, d),
                ![c].drag = [view |-> Optimistic(sessions[c].boardData, d)],
                ![c].failed = FALSE]

\* The await of handleDragEnd settles: a 2xx answer resolves (toast), any
\* other answer rejects and the catch block runs setBoardData(currentBoard).
DragSettled(c) ==
    /\ sessions[c].drag # Null
    /\ req[c].pc = "done"
    /\ sessions' = [sessions EXCEPT ![c] =
          IF req[c].status \in 200..299
          THEN [@ EXCEPT !.drag = Null, !.confirmed = sessions[c].drag.view]
          ELSE [@ EXCEPT !.drag = Null, !.boardData = sessions[c].currentBoard,
                         !.failed = TRUE]]
    /\ UNCHANGED <<lists, tasks, boards, req, hist, invitations>>

\* The events the ActivityFeed component listens for.
ActivityTypes ==
    {"task-created", "task-updated", "task-moved", "task-deleted", "list-created",
     "list-updated", "list-moved", "list-archived", "list-restored", "member-joined",
     "member-left", "member-role-changed", "board-updated"}

\* The socket of session c hands the next event to its listeners.  The
\* ActivityFeed records it; the Board component registers no listener for
\* task or list events, so boardData stays.
SocketEvent(c) ==
    /\ sessions[c].handled < Len(sessions[c].got)
    /\ LET e == sessions[c].got[sessions[c].handled + 1]
           a == <<e.event>> \o sessions[c].activities
       IN  sessions' = [sessions EXCEPT
              ![c].handled = @ + 1,
              ![c].activities =
                  IF e.event \in ActivityTypes /\ e.room = sessions[c].room
                  THEN SubSeq(a, 1, Min(Len(a), FeedCap))
                  ELSE @]
    /\ UNCHANGED <<lists, tasks, boards, req, hist, invitations>>

\* Session 1 drags, session 2 watches; the requests go through the routers.
\* A reorder request ends in the first step of the '/:id' update handler.
NextClient ==
    \/ DragEnd(1)
    \/ MoveStep(1) \/ UpdateFindTask(1) \/ ListUpdateFindList(1)
    \/ StoreRejects(1)
    \/ DragSettled(1)
    \/ \E c \in Slots : SocketEvent(c)

SpecClient == InitClient /\ [][NextClient]_vars

\* Move requests through the router, one at a time, on a store whose two
\* lists are on different boards.
\* ---------------------------------------------------------------------------
\* The activity log of a board under repeated addActivity calls.

MaxCalls == 3
ActivityActions == {"moved task", "created task", "deleted list"}
LoggedBefore == {0, 48, 50}

\* The n-th entry a board received before the calls that are followed.
EarlierEntry(n) ==
    [user |-> IF n % 2 = 0 THEN "owner" ELSE "member",
     action |-> IF n % 3 = 0 THEN "moved task" ELSE "created task"]

RECURSIVE BoardAfter(_, _)
BoardAfter(board, n) ==
    IF n = 0 THEN board
    ELSE LET e == EarlierEntry(n)
         IN  addActivity(BoardAfter(board, n - 1), e.user, e.action)

\* hist.added: every entry ever added to B1's log, newest first.
InitActivity ==
    \E k \in LoggedBefore :
        /\ tasks = [t \in TaskIds |->
                      [list |-> IF t = "T3" THEN "L2" ELSE "L1", board |-> "B1",
                       title |-> "a", position |-> IF t = "T2" THEN 1 ELSE 0]]
        /\ lists = [l \in ListIds |->
                      [board |-> "B1", title |-> "a",
                       tasks |-> IF l = "L1" THEN <<"T1", "T2">> ELSE <<"T3">>,
                       position |-> IF l = "L1" THEN 0 ELSE 1,
                       v |-> 0]]
        /\ boards = [b \in BoardIds |->
                       IF b = "B1" THEN BoardAfter(InitBoard, k)
                       ELSE OtherBoard]
        /\ req = [s \in Slots |-> IdleReq]
        /\ invitations = NoInvitations
        /\ hist = [n |-> 0, thrown |-> FALSE, rejected |-> FALSE, ordering |-> TRUE,
                   overlapped |-> FALSE, prev |-> Null,
                   added |-> [i \in 1..k |-> EarlierEntry(k - i + 1)]]
        /\ sessions = [c \in Slots |-> IdleSession]

\* board.addActivity(userId, action, details) on B1.
AddActivity ==
    /\ hist.n < MaxCalls
    /\ \E u \in Users, a \in ActivityActions :
          /\ boards' = [boards EXCEPT !["B1"] = addActivity(@, u, a)]
          /\ hist' = [hist EXCEPT !.n = @ + 1,
                                  !.added = <<[user |-> u, action |-> a]>> \o @]
    /\ UNCHANGED <<lists, tasks, req, sessions, invitations>>

NextActivity == AddActivity

SpecActivity == InitActivity /\ [][NextActivity]_vars

\* ---------------------------------------------------------------------------
\* Creating and deleting: lists on a board, tasks in a list.  L2 is not
\* created yet or holds T3.
InitLists ==
    /\ \E place \in InitPlaces, l2 \in BOOLEAN :
          /\ l2 \/ place["T3"] = NoId
          /\ tasks = [t \in TaskIds |->
                        IF place[t] = NoId THEN Null
                        ELSE [list |-> place[t], board |-> "B1", title |-> "a",
                              position |-> IndexOf(InitTasksOf(place, place[t]), t) - 1]]
          /\ lists = [l \in ListIds |->
                        IF l = "L2" /\ ~l2 THEN Null
                        ELSE [board |-> "B1", title |-> "a",
                              tasks |-> InitTasksOf(place, l),
                              position |-> IF l = "L1" THEN 0 ELSE 1,
                              v |-> 0]]
          /\ boards = [b \in BoardIds |->
                         IF b = "B1"
                         THEN [InitBoard EXCEPT !.lists = IF l2 THEN <<"L1", "L2">> ELSE <<"L1">>]
                         ELSE OtherBoard]
    /\ req = [s \in Slots |-> IdleReq]
    /\ invitations = NoInvitations
    /\ hist = [n |-> 0, thrown |-> FALSE, rejected |-> FALSE, ordering |-> TRUE,
               overlapped |-> FALSE, prev |-> Null, added |-> <<>>]
    /\ sessions = [c \in Slots |-> IdleSession]

ListClientRequests == CreateRequests \cup ListCreateRequests \cup ListDeleteRequests

NextLists ==
    \/ ReceiveOf(1, Users, ListClientRequests)
    \/ CreateStep(1) \/ ListCreateStep(1) \/ ListDeleteStep(1)
    \/ StoreRejects(1)

SpecLists == InitLists /\ [][NextLists]_vars

NextCross == ReceiveOf(1, Users, MoveRequests) \/ MoveStep(1) \/ StoreRejects(1)

SpecCross == InitCross /\ [][NextCross]_vars

\* ================================================================= claims
Quiet == \A s \in Slots : ~InFlight(s)

Done(s) == req[s].pc = "done"

\* The tasks whose list reference is l.
TasksOfList(ts, l) == {t \in TaskIds : ts[t] # Null /\ ts[t].list = l}

\* The stored array of l is an ascending-position sort of the tasks that
\* reference l (tasks of equal position may come in either order).
OrderAgrees(ls, ts, l) ==
    LET arr == ls[l].tasks
    IN  /\ Range(arr) = TasksOfList(ts, l)
        /\ NoDup(arr)
        /\ \A i, j \in 1..Len(arr) : i < j => ts[arr[i]].position <= ts[arr[j]].position

\* The tasks of the array have the positions 0..n-1 in array order.
Renumbered(ls, ts, l) ==
    \A i \in 1..Len(ls[l].tasks) :
        ts[ls[l].tasks[i]] # Null /\ ts[ls[l].tasks[i]].position = i - 1

Occurrences(ls, t) ==
    Cardinality({<<l, i>> \in ListIds \X (1..(2 * Cardinality(TaskIds) + MaxRequests)) :
                    i <= Len(ls[l].tasks) /\ ls[l].tasks[i] = t})

\* What the ordering protocol stores: every list's array, every task's list
\* reference and position.
Ordering(ls, ts) ==
    [arrays |-> [l \in ListIds |-> ls[l].tasks],
     tasks |-> [t \in TaskIds |->
                  IF ts[t] = Null THEN Null
                  ELSE [list |-> ts[t].list, position |-> ts[t].position]]]

IsMoveRequest(r) ==
    /\ r.request # Null
    /\ r.request.router = "tasks" /\ r.request.method = "PUT"
    /\ Len(r.request.path) = 2 /\ r.request.path[2] = "move"

IsReorderRequest(r, router) ==
    /\ r.request # Null
    /\ r.request.router = router /\ r.request.method = "PUT"
    /\ r.request.path = <<"reorder">>

IsPermutation(a, b) == Len(a) = Len(b) /\ NoDup(a) /\ NoDup(b) /\ Range(a) = Range(b)

\* Every request so far was a task create, move, reorder or delete, each has
\* been answered, and none was answered from a catch block.
OrderingRequestsCompleted == Quiet /\ hist.ordering /\ ~hist.thrown

\* C1: after any sequence of completed task create, move, reorder and delete
\* requests, every list's stored tasks array is the ascending position sort
\* of the tasks whose list reference is that list.
C1_ArraySortedByPosition ==
    OrderingRequestsCompleted => \A l \in ListIds : OrderAgrees(lists, tasks, l)

\* C2: after any sequence of completed task create, move, reorder and delete
\* requests, every existing task's id occurs exactly once across all tasks
\* arrays, in the list its list reference names.
C2_TaskInExactlyOneList ==
    OrderingRequestsCompleted =>
        \A t \in TaskIds :
            tasks[t] # Null =>
                /\ Occurrences(lists, t) = 1
                /\ t \in Range(lists[tasks[t].list].tasks)

\* C3: a move or reorder request answered with an error (4xx or 5xx) leaves
\* every tasks array and every task's list reference and position as they
\* were when the request arrived.
C3_ErrorLeavesOrderingUnchanged ==
    \A s \in Slots :
        (/\ Done(s)
         /\ IsMoveRequest(req[s]) \/ IsReorderRequest(req[s], "tasks")
         /\ req[s].status >= 400)
        => Ordering(lists, tasks) = Ordering(req[s].pre.lists, req[s].pre.tasks)

\* A move of a task out of the list that holds it, into another list.
CrossListMove(r) ==
    /\ r.handler = "tasks.move"
    /\ r.body.sourceListId \in ListIds /\ r.body.destinationListId \in ListIds
    /\ r.body.sourceListId # r.body.destinationListId
    /\ r.pre.tasks[r.id] # Null
    /\ r.pre.tasks[r.id].list = r.body.sourceListId
    /\ \A l \in ListIds : OrderAgrees(r.pre.lists, r.pre.tasks, l)

\* C4: while a cross-list move is in progress, in no stored state is the
\* task missing from both the source and the destination array, and in none
\* does the task's list reference name a list whose array does not hold it.
C4_NoPartialMoveObservable ==
    \A s \in Slots :
        (InFlight(s) /\ CrossListMove(req[s]) /\ tasks[req[s].id] # Null) =>
            /\ req[s].id \in Range(lists[req[s].body.sourceListId].tasks)
                             \cup Range(lists[req[s].body.destinationListId].tasks)
            /\ req[s].id \in Range(lists[tasks[req[s].id].list].tasks)

\* C5: a move whose sourceListId names an existing list that does not hold
\* the task is answered 4xx, and the arrays of the named source, of the
\* destination and of the task's real list stay as they were.
C5_WrongSourceRejected ==
    \A s \in Slots :
        (/\ Done(s) /\ ~hist.thrown
         /\ IsMoveRequest(req[s])
         /\ req[s].pre.tasks[req[s].id] # Null
         /\ req[s].body.sourceListId \in ListIds
         /\ req[s].id \notin Range(req[s].pre.lists[req[s].body.sourceListId].tasks))
        => /\ req[s].status \in 400..499
           /\ \A l \in ListIds : lists[l].tasks = req[s].pre.lists[l].tasks

\* Two reorder requests of one list, each a permutation of the array the list
\* had when the request arrived, with different target orders, handled at
\* the same time and both answered.
ConcurrentReorders ==
    /\ hist.overlapped
    /\ \A s \in Slots :
          /\ Done(s) /\ req[s].handler = "tasks.reorder"
          /\ req[s].body.listId \in ListIds
          /\ IsPermutation(req[s].body.taskIds, req[s].pre.lists[req[s].body.listId].tasks)
    /\ req[1].body.listId = req[2].body.listId
    /\ req[1].body.taskIds # req[2].body.taskIds

\* The stored array of l and the positions of its tasks are those of taskIds.
StoredOrderIs(l, taskIds) ==
    /\ lists[l].tasks = taskIds
    /\ \A i \in 1..Len(taskIds) :
          tasks[taskIds[i]] # Null /\ tasks[taskIds[i]].position = i - 1

\* C6: two concurrent reorders of one list with different target orders are
\* both answered 200, and the stored array and positions are those of one
\* of the two requests, never a mixture.
C6_ConcurrentReordersLastWins ==
    ConcurrentReorders =>
        /\ \A s \in Slots : req[s].status = 200
        /\ \E s \in Slots : StoredOrderIs(req[s].body.listId, req[s].body.taskIds)

\* The board a move or reorder request is checked against: the board of the
\* task moved, or of the list reordered.
BoardOfRequest(r) ==
    IF r.handler = "tasks.move"
    THEN IF r.id \in TaskIds /\ r.pre.tasks[r.id] # Null THEN r.pre.tasks[r.id].board ELSE NoId
    ELSE IF r.body.listId \in ListIds THEN r.pre.lists[r.body.listId].board ELSE NoId

\* A move or reorder request that names existing documents: a move of an
\* existing task between existing lists, a reorder of an existing list with
\* a permutation of its array.
WellFormed(r) ==
    IF r.handler = "tasks.move"
    THEN r.body.sourceListId \in ListIds /\ r.body.destinationListId \in ListIds
    ELSE /\ r.body.listId \in ListIds
         /\ IsPermutation(r.body.taskIds, r.pre.lists[r.body.listId].tasks)

\* C7: a task move or reorder from a caller who is no member of the board, or
\* who is a viewer, is answered 403 and changes no stored list or task.
C7_BelowMemberDenied ==
    \A s \in Slots :
        (/\ Done(s) /\ ~hist.rejected
         /\ req[s].handler \in {"tasks.move", "tasks.reorder"}
         /\ WellFormed(req[s])
         /\ BoardOfRequest(req[s]) \in BoardIds
         /\ getUserRole(boards[BoardOfRequest(req[s])], req[s].user) \in {"none", "viewer"})
        => /\ req[s].status = 403
           /\ lists = req[s].pre.lists
           /\ tasks = req[s].pre.tasks

\* A reorder request answered 200 whose taskIds is a permutation of the array
\* the list had when the request arrived.
SuccessfulReorder(r) ==
    /\ r.pc = "done" /\ r.handler = "tasks.reorder" /\ r.status = 200
    /\ r.body.listId \in ListIds
    /\ IsPermutation(r.body.taskIds, r.pre.lists[r.body.listId].tasks)

\* C8: after a successful reorder with a permutation of the list's tasks, the
\* stored array is taskIds, the task at index i has position i, and so the
\* array is in strictly ascending position order.
C8_ReorderUpdatesBoth ==
    \A s \in Slots :
        SuccessfulReorder(req[s]) =>
            LET l == req[s].body.listId
                taskIds == req[s].body.taskIds
            IN  /\ lists[l].tasks = taskIds
                /\ \A i \in 1..Len(taskIds) :
                      tasks[taskIds[i]] # Null /\ tasks[taskIds[i]].position = i - 1
                /\ \A i, j \in 1..Len(lists[l].tasks) :
                      i < j => tasks[lists[l].tasks[i]].position
                                   < tasks[lists[l].tasks[j]].position

\* A successful reorder that changed the order of a list of several tasks.
C8_Witness ==
    /\ SuccessfulReorder(req[1])
    /\ Len(req[1].body.taskIds) >= 2
    /\ req[1].body.taskIds # req[1].pre.lists[req[1].body.listId].tasks
    /\ lists[req[1].body.listId].tasks = req[1].body.taskIds

\* C9: after a successful move of T from list A to another list B at index j
\* (A and B numbered 0..n-1 before, j within B), A's array is its previous
\* array without T and numbered 0..n-1, B's array is its previous array with
\* T inserted at j and numbered 0..m-1, and T's list reference is B.
C9_MoveRenumbersBoth ==
    \A s \in Slots :
        (/\ Done(s) /\ req[s].status = 200
         /\ CrossListMove(req[s])
         /\ \A l \in ListIds : Renumbered(req[s].pre.lists, req[s].pre.tasks, l)
         /\ req[s].body.newPosition
               <= Len(req[s].pre.lists[req[s].body.destinationListId].tasks))
        => LET A == req[s].body.sourceListId
               B == req[s].body.destinationListId
               T == req[s].id
           IN  /\ lists[A].tasks = removeTask(req[s].pre.lists[A].tasks, T)
               /\ Renumbered(lists, tasks, A)
               /\ lists[B].tasks = splice(req[s].pre.lists[B].tasks,
                                          req[s].body.newPosition, T)
               /\ Renumbered(lists, tasks, B)
               /\ tasks[T].list = B

\* A PUT .../reorder from a member of the board with valid arguments.
ValidTaskReorder(r) ==
    /\ IsReorderRequest(r, "tasks")
    /\ r.body.listId \in ListIds
    /\ IsPermutation(r.body.taskIds, r.pre.lists[r.body.listId].tasks)
    /\ Range(r.body.taskIds) = TasksOfList(r.pre.tasks, r.body.listId)
    /\ isMember(boards[r.pre.lists[r.body.listId].board], r.user)

ValidListReorder(r) ==
    /\ IsReorderRequest(r, "lists")
    /\ r.body.boardId \in BoardIds
    /\ IsPermutation(r.body.listIds, boards[r.body.boardId].lists)
    /\ isMember(boards[r.body.boardId], r.user)

\* C10: PUT /api/tasks/reorder and PUT /api/lists/reorder from a board member
\* with valid arguments run the reorder handlers and are answered with their
\* 'reordered successfully' responses, not by the '/:id' update handlers.
C10_ReorderRoutesReachable ==
    \A s \in Slots :
        /\ (req[s].pc # "idle" /\ ValidTaskReorder(req[s])) =>
              /\ req[s].handler = "tasks.reorder"
              /\ (Done(s) /\ ~hist.rejected) =>
                    req[s].status = 200 /\ req[s].message = "Tasks reordered successfully"
        /\ (req[s].pc # "idle" /\ ValidListReorder(req[s])) =>
              /\ req[s].handler = "lists.reorder"
              /\ (Done(s) /\ ~hist.rejected) =>
                    req[s].status = 200 /\ req[s].message = "Lists reordered successfully"

\* A move of an existing task out of the list that holds it into an existing
\* list on another board than the source list, or than the task.
CrossBoardMove(r) ==
    /\ IsMoveRequest(r)
    /\ r.pre.tasks[r.id] # Null
    /\ r.pre.tasks[r.id].list = r.body.sourceListId
    /\ r.body.sourceListId \in ListIds /\ r.body.destinationListId \in ListIds
    /\ r.pre.lists[r.body.sourceListId] # Null
    /\ r.pre.lists[r.body.destinationListId] # Null
    /\ \/ r.pre.lists[r.body.destinationListId].board # r.pre.lists[r.body.sourceListId].board
       \/ r.pre.lists[r.body.destinationListId].board # r.pre.tasks[r.id].board

\* C11: a move whose destination list is on another board than the source
\* list or the task is answered 4xx, and no tasks array and no task changes.
C11_CrossBoardMoveRejected ==
    \A s \in Slots :
        (Done(s) /\ ~hist.rejected /\ CrossBoardMove(req[s]))
        => /\ req[s].status \in 400..499
           /\ \A l \in ListIds : lists[l].tasks = req[s].pre.lists[l].tasks
           /\ tasks = req[s].pre.tasks

\* C12: when the server call of a drag has failed and the client has handled
\* the failure, the client's view is the last state the server confirmed to
\* it: the fetched board with every acknowledged drag of this client applied.
C12_FailedDragRestoresConfirmed ==
    \A c \in Slots :
        (sessions[c].failed /\ sessions[c].drag = Null)
        => sessions[c].boardData = sessions[c].confirmed

\* The operations that broadcast a change of order.
OrderEvents == {"task-moved", "tasks-reordered", "lists-reordered"}

\* C13: after a successful move or reorder the server has emitted one event
\* to the board's room; every other session in the room has received it and
\* the initiating session has not.
C13_InitiatorExcluded ==
    \A s \in Slots :
        (/\ Done(s) /\ req[s].status = 200
         /\ req[s].emit # Null /\ req[s].emit.event \in OrderEvents)
        => /\ \A c \in Slots \ {s} :
                 sessions[c].room = req[s].emit.room
                 => /\ Len(sessions[c].got) \in 1..hist.n
                    /\ sessions[c].got[Len(sessions[c].got)] = req[s].emit
           /\ sessions[s].room = req[s].emit.room
                 => req[s].emit \notin Range(sessions[s].got)

\* The lists whose order an event changes.
Affected(e) ==
    IF e.event = "task-moved"
    THEN {e.payload.sourceListId, e.payload.destinationListId} \cap ListIds
    ELSE {e.payload.listId} \cap ListIds

\* Session c has handled every event, every request so far was answered with
\* success and broadcast, and the last one came from another client.
SawAllBroadcasts(c) ==
    /\ Quiet /\ ~hist.thrown
    /\ hist.n >= 1
    /\ Len(sessions[c].got) = hist.n
    /\ sessions[c].handled = hist.n
    /\ sessions[c].got[hist.n].event \in {"task-moved", "tasks-reordered"}
    /\ sessions[c].got[hist.n].userId # sessions[c].user

\* C14: a session that has handled the broadcast of another client's accepted
\* move or reorder shows the affected lists in the order the server stored.
C14_BroadcastUpdatesView ==
    \A c \in Slots :
        (sessions[c].boardData # Null /\ SawAllBroadcasts(c))
        => \A l \in Affected(sessions[c].got[hist.n]) :
              sessions[c].boardData.tasks[l] = lists[l].tasks

\* The request in slot s moves the task of the earlier move back: out of that
\* move's destination, into its source, at the index the task had there.
MovesBack(s) ==
    /\ hist.prev # Null
    /\ CrossListMove(hist.prev)
    /\ req[s].handler = "tasks.move"
    /\ req[s].id = hist.prev.id
    /\ req[s].body.sourceListId = hist.prev.body.destinationListId
    /\ req[s].body.destinationListId = hist.prev.body.sourceListId
    /\ req[s].body.newPosition
          = IndexOf(hist.prev.pre.lists[hist.prev.body.sourceListId].tasks, req[s].id) - 1

\* C15: when task T was moved from list A (where it was at index i) to list B
\* and is then moved back from B to A at index i, both moves answered 200, the
\* stored tasks arrays of A and of B are what they were before the first move
\* and T's list reference is A.
C15_MoveThereAndBack ==
    \A s \in Slots :
        (Done(s) /\ req[s].status = 200 /\ MovesBack(s))
        => LET A == hist.prev.body.sourceListId
               B == hist.prev.body.destinationListId
           IN  /\ lists[A].tasks = hist.prev.pre.lists[A].tasks
               /\ lists[B].tasks = hist.prev.pre.lists[B].tasks
               /\ tasks[req[s].id].list = A

\* Both moves were answered 200 and the task was not first in A, so that
\* the index of the move back matters.
C15_Witness ==
    /\ Done(1) /\ req[1].status = 200 /\ MovesBack(1)
    /\ req[1].body.newPosition = 1
    /\ Len(lists[req[1].body.destinationListId].tasks) = 2

\* A task reorder from a board member whose taskIds is the list's stored array.
SameOrderReorder(r) ==
    /\ r.pc # "idle"
    /\ IsReorderRequest(r, "tasks") \/ r.handler = "tasks.reorder"
    /\ r.body.listId \in ListIds
    /\ r.body.taskIds = r.pre.lists[r.body.listId].tasks
    /\ NoDup(r.body.taskIds)
    /\ Range(r.body.taskIds) = TasksOfList(r.pre.tasks, r.body.listId)
    /\ isMember(boards[r.pre.lists[r.body.listId].board], r.user)

\* C16: a reorder request whose taskIds is the list's current array is
\* answered 200, leaves the array as it was and the tasks at positions 0..n-1
\* in array order; applied to a list that such a reorder has already numbered
\* it changes no position either.
C16_SameOrderReorderIsNoOp ==
    \A s \in Slots :
        (Done(s) /\ ~hist.rejected /\ SameOrderReorder(req[s]))
        => LET l == req[s].body.listId
           IN  /\ req[s].status = 200
               /\ lists[l].tasks = req[s].pre.lists[l].tasks
               /\ Renumbered(lists, tasks, l)
               /\ Renumbered(req[s].pre.lists, req[s].pre.tasks, l)
                     => \A t \in TaskIds : tasks[t] = req[s].pre.tasks[t]

\* A cross-list move answered 200 whose destination was numbered 0..m-1.
BoundaryMove(r) ==
    /\ r.pc = "done" /\ r.status = 200
    /\ CrossListMove(r)
    /\ Renumbered(r.pre.lists, r.pre.tasks, r.body.destinationListId)

\* C17: a move to index 0 of an empty destination, or to an index at or beyond
\* the length of the destination, is answered 200; afterwards the task is the
\* last element of the destination's array (the only one when it was empty),
\* its position is greater than that of the element before it, and an index
\* beyond the length is stored as the length, in the array and as position.
C17_BoundaryMoveClamped ==
    \A s \in Slots :
        /\ (/\ Done(s) /\ ~hist.rejected /\ CrossListMove(req[s])
            /\ isMember(boards[req[s].pre.tasks[req[s].id].board], req[s].user)
            /\ req[s].body.newPosition
                  >= Len(req[s].pre.lists[req[s].body.destinationListId].tasks))
           => req[s].status = 200
        /\ BoundaryMove(req[s])
           => LET B   == req[s].body.destinationListId
                  T   == req[s].id
                  old == req[s].pre.lists[B].tasks
                  arr == lists[B].tasks
              IN  req[s].body.newPosition >= Len(old)
                  => /\ arr = Append(old, T)
                     /\ Len(old) > 0 => tasks[arr[Len(old)]].position < tasks[T].position
                     /\ tasks[T].position = Len(old)

\* C18: after any sequence of addActivity calls the log of the board holds at
\* most 50 entries, newest first, and they are the 50 most recently added
\* entries, or all of them when fewer than 50 were added.
C18_ActivityLogKeepsNewest ==
    LET log == boards["B1"].activity
    IN  /\ Len(log) <= ActivityCap
        /\ Len(log) = Min(Len(hist.added), ActivityCap)
        /\ log = SubSeq(hist.added, 1, Len(log))

\* A call on a full log has evicted an entry.
C18_Witness ==
    /\ hist.n >= 2
    /\ Len(hist.added) > ActivityCap
    /\ hist.added[1] # hist.added[2]
    /\ hist.added[ActivityCap + 1] # hist.added[ActivityCap]

\* 1 + the greatest of a set of positions, 0 for the empty set.
AfterGreatest(ps) == IF ps = {} THEN 0 ELSE (CHOOSE p \in ps : \A q \in ps : q <= p) + 1

\* C19: a task created in list l has position 1 + the greatest position of
\* the tasks whose list reference was l (0 when there were none) and its id
\* is appended to l's array, so it is last in the array and has the greatest
\* position of l's tasks; a list created without an explicit position has
\* position 1 + the greatest position of the lists of its board (0 when the
\* board had none).
C19_CreatedLast ==
    \A s \in Slots :
        /\ (Done(s) /\ req[s].handler = "lists.createTask" /\ req[s].status = 201)
           => LET l == req[s].id
                  t == req[s].created
                  before == {u \in TaskIds : req[s].pre.tasks[u] # Null
                                              /\ req[s].pre.tasks[u].list = l}
              IN  /\ tasks[t] # Null /\ tasks[t].list = l
                  /\ tasks[t].position
                        = AfterGreatest({req[s].pre.tasks[u].position : u \in before})
                  /\ lists[l].tasks = Append(req[s].pre.lists[l].tasks, t)
                  /\ \A u \in TasksOfList(tasks, l) \ {t} :
                        tasks[u].position < tasks[t].position
        /\ (/\ Done(s) /\ req[s].handler = "lists.create" /\ req[s].status = 201
            /\ req[s].body.position = NoInt)
           => LET b == req[s].body.boardId
                  before == {l \in ListIds : req[s].pre.lists[l] # Null
                                              /\ req[s].pre.lists[l].board = b}
              IN  /\ lists[req[s].created] # Null /\ lists[req[s].created].board = b
                  /\ lists[req[s].created].position
                        = AfterGreatest({req[s].pre.lists[l].position : l \in before})

\* A third task was created in L1, after T1 and T2, and then a second list on
\* the board, after L1, without an explicit position.
C19_Witness ==
    /\ Done(1) /\ req[1].handler = "lists.create" /\ req[1].status = 201
    /\ req[1].body.position = NoInt
    /\ lists[req[1].created].position = 1
    /\ tasks["T3"] # Null /\ tasks["T3"].list = "L1" /\ tasks["T3"].position = 2
    /\ lists["L1"].tasks = <<"T1", "T2", "T3">>

\* DELETE /api/lists/:id answered 200.
ListDeleted(r) == r.pc = "done" /\ r.handler = "lists.delete" /\ r.status = 200

\* C20: after a successful deletion of a list, the list does not exist, no
\* task whose list reference is that list exists, its id is not in the lists
\* array of its board, and every other list and every task of another list is
\* as it was before.
C20_ListDeleteCascades ==
    \A s \in Slots :
        ListDeleted(req[s])
        => LET l == req[s].id
               b == req[s].pre.lists[l].board
           IN  /\ lists[l] = Null
               /\ TasksOfList(tasks, l) = {}
               /\ l \notin Range(boards[b].lists)
               /\ \A o \in ListIds \ {l} : lists[o] = req[s].pre.lists[o]
               /\ \A t \in TaskIds :
                     (req[s].pre.tasks[t] # Null /\ req[s].pre.tasks[t].list # l)
                     => tasks[t] = req[s].pre.tasks[t]

\* The deleted list held two tasks and another list, holding a task, remains.
C20_Witness ==
    /\ ListDeleted(req[1])
    /\ Len(req[1].pre.lists[req[1].id].tasks) = 2
    /\ Cardinality(TasksOfList(req[1].pre.tasks, req[1].id)) = 2
    /\ \E o \in ListIds \ {req[1].id} : lists[o] # Null /\ TasksOfList(tasks, o) # {}

\* The ids of board b's lists array are in ascending order of the lists'
\* position fields, and the array holds exactly the stored lists of b.
BoardOrderAgrees(b) ==
    LET arr == boards[b].lists
    IN  /\ Range(arr) = {l \in ListIds : lists[l] # Null /\ lists[l].board = b}
        /\ \A i, j \in 1..Len(arr) :
              i < j => lists[arr[i]].position <= lists[arr[j]].position

\* C21: after a successful list reorder (a member of the board, listIds a
\* permutation of the board's lists), the board's lists array and the lists'
\* position fields give the same order.
C21_ListReorderKeepsBoardArray ==
    \A s \in Slots :
        (/\ Done(s) /\ req[s].handler = "lists.reorder" /\ req[s].status = 200
         /\ ValidListReorder(req[s]))
        => BoardOrderAgrees(req[s].body.boardId)

\* ------------------------------------------- members and invitations
MemberStep(s) ==
    \/ BoardAccess(s) \/ MemberFindUser(s) \/ MemberSaveBoard(s) \/ MemberPopulate(s)

InvitationStep(s) ==
    \/ InviteFindBoard(s) \/ InviteFindUser(s) \/ InviteExists(s) \/ InviteSave(s)
    \/ InvitePopulate(s)
    \/ AcceptFind(s) \/ AcceptSaveInvitation(s) \/ AcceptSaveMember(s) \/ AcceptSaveActivity(s)
    \/ DeclineFind(s) \/ DeclineSave(s)
    \/ CancelFind(s) \/ CancelSave(s)

MemberTargets == {"owner", "member", "stranger"}

MemberRequests ==
    {[router |-> "boards", method |-> "POST", path |-> <<b, "members">>,
      body |-> [EmptyBody EXCEPT !.user = u, !.role = r]] :
        b \in {"B1"}, u \in {"member", "stranger", NoSuchUser}, r \in {"member", "admin"}}
    \cup
    {[router |-> "boards", method |-> "PUT", path |-> <<b, "members", u>>,
      body |-> [EmptyBody EXCEPT !.role = r]] :
        b \in {"B1"}, u \in MemberTargets, r \in {"admin", "viewer"}}
    \cup
    {[router |-> "boards", method |-> "DELETE", path |-> <<b, "members", u>>,
      body |-> EmptyBody] :
        b \in BoardIds, u \in MemberTargets}
    \cup
    {[router |-> "boards", method |-> "GET", path |-> <<b, "activity">>,
      body |-> EmptyBody] : b \in BoardIds \cup {NoSuchBoard}}

InvitationRequests ==
    {[router |-> "invitations", method |-> "POST", path |-> <<>>,
      body |-> [EmptyBody EXCEPT !.boardId = b, !.user = u]] :
        b \in {"B1", NoSuchBoard}, u \in {"owner", "member", "stranger", NoSuchUser}}
    \cup
    {[router |-> "invitations", method |-> "POST", path |-> <<>>,
      body |-> [EmptyBody EXCEPT !.boardId = "B1", !.user = "stranger", !.role = "admin"]]}
    \cup
    {[router |-> "invitations", method |-> "PUT", path |-> <<i, verb>>, body |-> EmptyBody] :
        i \in InvIds \cup {NoSuchInvitation}, verb \in {"accept", "decline"}}
    \cup
    {[router |-> "invitations", method |-> "DELETE", path |-> <<i>>, body |-> EmptyBody] :
        i \in InvIds \cup {NoSuchInvitation}}

MemberClientRequests == MemberRequests \cup InvitationRequests

\* An invitation of the owner of B1 to the user "stranger".
Invited(role, status, expired) ==
    [board |-> "B1", inviter |-> "owner", invitee |-> "stranger", role |-> role,
     status |-> status, expired |-> expired]

\* The stores after some invitations were sent and answered: I1 was sent
\* first; I2 was sent after I1 was answered (the handler sends no second
\* invitation while one is pending, nor to a member).  "member" was added
\* with either role; the other board is archived.
InitMembers ==
    /\ \E place \in InitPlaces : place["T3"] = "L2" /\
          /\ tasks = [t \in TaskIds |->
                        [list |-> place[t], board |-> "B1", title |-> "a",
                         position |-> IndexOf(InitTasksOf(place, place[t]), t) - 1]]
          /\ lists = [l \in ListIds |->
                        [board |-> "B1", title |-> "a", tasks |-> InitTasksOf(place, l),
                         position |-> IF l = "L1" THEN 0 ELSE 1, v |-> 0]]
    /\ \E memberRole \in {"member", "admin"}, joined \in BOOLEAN,
          first \in {Null} \cup {Invited(r, st, e) :
                                   r \in {"member", "viewer"},
                                   st \in {"pending", "accepted", "declined", "cancelled"},
                                   e \in BOOLEAN},
          second \in {Null, Invited("member", "pending", FALSE)} :
          /\ first # Null /\ first.status # "pending" => ~first.expired /\ first.role = "member"
          /\ second # Null => first # Null /\ first.status # "pending" /\ ~joined
          /\ joined => first # Null /\ first.status = "accepted"
          /\ boards = [b \in BoardIds |->
                         IF b = "B1"
                         THEN [InitBoard EXCEPT
                                 !.members =
                                    <<[user |-> "member", role |-> memberRole],
                                      [user |-> "viewer", role |-> "viewer"]>>
                                    \o (IF joined
                                        THEN <<[user |-> "stranger", role |-> first.role]>>
                                        ELSE <<>>)]
                         ELSE [OtherBoard EXCEPT !.isArchived = TRUE]]
          /\ invitations = [i \in InvIds |-> IF i = "I1" THEN first ELSE second]
    /\ req = [s \in Slots |-> IdleReq]
    /\ hist = [n |-> 0, thrown |-> FALSE, rejected |-> FALSE, ordering |-> TRUE,
               overlapped |-> FALSE, prev |-> Null, added |-> <<>>]
    /\ sessions = [c \in Slots |-> IdleSession]

NextMembers ==
    \/ ReceiveOf(1, Users, MemberClientRequests)
    \/ MemberStep(1) \/ InvitationStep(1)
    \/ TimePasses
    \/ StoreRejects(1)

SpecMembers == InitMembers /\ [][NextMembers]_vars

\* C22: in every stored board the owner's user id does not occur in the
\* members array and no user id occurs twice in it, whatever member-add,
\* role-update, member-remove and invitation-accept requests were handled.
C22_OwnerNotMemberNoDuplicates ==
    \A b \in BoardIds :
        /\ \A i \in 1..Len(boards[b].members) : boards[b].members[i].user # boards[b].owner
        /\ \A i, j \in 1..Len(boards[b].members) :
              i # j => boards[b].members[i].user # boards[b].members[j].user

\* An invitation was accepted by a user who had become a member meanwhile.
C22_Witness ==
    /\ req[1].pc = "done" /\ req[1].handler = "invitations.accept" /\ req[1].status = 200
    /\ \E i \in 1..Len(req[1].pre.boards["B1"].members) :
          req[1].pre.boards["B1"].members[i].user = req[1].user

\* A taskIds array that is no rearrangement of the list's tasks array: it
\* omits a task of the list, repeats an id, or names a task the list does
\* not hold.
MalformedTaskIds(r) ==
    LET held == r.pre.lists[r.body.listId].tasks
    IN  \/ Range(held) \ Range(r.body.taskIds) # {}
        \/ ~NoDup(r.body.taskIds)
        \/ Range(r.body.taskIds) \ Range(held) # {}

\* C23: a task reorder answered 200 leaves the set of ids in the list's
\* tasks array as it was; a taskIds array that omits a task of the list,
\* repeats an id or names a task of another list is answered 400 and nothing
\* is changed.
C23_ReorderKeepsTaskSet ==
    \A s \in Slots :
        (/\ Done(s) /\ req[s].handler = "tasks.reorder" /\ ~hist.rejected
         /\ req[s].body.listId \in ListIds
         /\ req[s].pre.lists[req[s].body.listId] # Null
         /\ isMember(boards[req[s].pre.lists[req[s].body.listId].board], req[s].user))
        => LET l == req[s].body.listId
           IN  /\ req[s].status = 200
                    => Range(lists[l].tasks) = Range(req[s].pre.lists[l].tasks)
               /\ MalformedTaskIds(req[s])
                    => /\ req[s].status = 400
                       /\ lists = req[s].pre.lists /\ tasks = req[s].pre.tasks

\* ------------------------------------- list reorder with a second board
\* The reorder handler of the lists router, called directly, on the stores
\* where L2 belongs to the other board.
NextCrossLists ==
    \/ InvokeOf(1, Users, ListReorderRequests)
    \/ ListReorderStep(1)
    \/ StoreRejects(1)

SpecCrossLists == InitCross /\ [][NextCrossLists]_vars

\* C24: a list reorder naming board B, answered 200 because the caller is a
\* member of B, leaves the position of every list of any other board as it
\* was, whatever ids listIds contains.
C24_ListReorderStaysOnBoard ==
    \A s \in Slots :
        (Done(s) /\ req[s].handler = "lists.reorder" /\ req[s].status = 200)
        => \A l \in ListIds :
              (lists[l] # Null /\ lists[l].board # req[s].body.boardId)
              => lists[l].position = req[s].pre.lists[l].position

\* How often x occurs in the array arr.
TimesIn(arr, x) == Cardinality({i \in 1..Len(arr) : arr[i] = x})

\* A completed move of a task of the source list into another list d, whose
\* save of the source list has landed: the handler went on to the destination.
MoveInto(r, d) ==
    /\ r.pc = "done" /\ r.handler = "tasks.move"
    /\ r.body.destinationListId = d /\ r.body.sourceListId \in ListIds \ {d}
    /\ r.pre.tasks[r.id] # Null /\ r.pre.tasks[r.id].list = r.body.sourceListId
    /\ r.id \in Range(r.pre.lists[r.body.sourceListId].tasks)
    /\ r.id \notin Range(lists[r.body.sourceListId].tasks)

\* C25: when two moves of two different tasks into the same destination
\* list were handled concurrently and both have completed, the destination's
\* stored tasks array contains both moved tasks, each exactly once, and
\* every task it held before.
C25_ConcurrentMovesBothLand ==
    \A d \in ListIds :
        (/\ MoveInto(req[1], d) /\ MoveInto(req[2], d)
         /\ req[1].id # req[2].id
         /\ hist.overlapped)
        => /\ TimesIn(lists[d].tasks, req[1].id) = 1
           /\ TimesIn(lists[d].tasks, req[2].id) = 1
           /\ \A s \in Slots : Range(req[s].pre.lists[d].tasks) \subseteq Range(lists[d].tasks)

\* A role update or a member removal, aimed at the owner of the board.
TargetsOwner(r) ==
    /\ r.pc = "done" /\ r.handler \in {"boards.updateMember", "boards.removeMember"}
    /\ r.id \in BoardIds /\ r.request.path[3] = r.pre.boards[r.id].owner

AtOrAbove(requiredRole) ==
    CASE requiredRole = "viewer" -> {"viewer", "member", "admin", "owner"}
      [] requiredRole = "member" -> {"member", "admin", "owner"}
      [] requiredRole = "admin"  -> {"admin", "owner"}
      [] requiredRole = "owner"  -> {"owner"}

\* A request to a route behind checkBoardAccess, past the middleware's
\* Board.findById, which the store answered.
PastAccess(r) ==
    /\ r.handler \in ProtectedHandlers
    /\ r.pc \notin {"idle", "access.findBoard"}
    /\ r.message # "Server error checking board access"

\* The board exists, is not archived, and the user's role on it ranks at or
\* above the role the route requires.
Entitled(r) ==
    /\ r.id \in BoardIds
    /\ ~r.pre.boards[r.id].isArchived
    /\ getUserRole(r.pre.boards[r.id], r.user) \in AtOrAbove(RequiredRole(r.handler))

\* C27: checkBoardAccess(requiredRole) lets a request through exactly when
\* the board exists, is not archived and the user has a role on it that ranks
\* at or above requiredRole; otherwise it answers 404 (no board) or 403 and
\* the protected handler does not run: nothing is stored.
C27_AccessIffRankSuffices ==
    \A s \in Slots :
        PastAccess(req[s])
        => /\ req[s].userRole # NoId <=> Entitled(req[s])
           /\ ~Entitled(req[s])
                => /\ req[s].pc = "done"
                   /\ req[s].status = IF req[s].id \in BoardIds THEN 403 ELSE 404
                   /\ boards = req[s].pre.boards

\* A user whose role is member was let through to the activity log, which
\* requires viewer.
C27_Witness ==
    /\ PastAccess(req[1]) /\ req[1].handler = "boards.activity"
    /\ req[1].userRole = "member" /\ req[1].status = 200

\* A request to accept, decline or cancel the stored invitation r.id.
Answers(r) ==
    /\ r.pc # "idle"
    /\ r.handler \in {"invitations.accept", "invitations.decline", "invitations.cancel"}
    /\ r.id \in InvIds /\ r.pre.invitations[r.id] # Null

\* The user the handler allows the operation to: the invitee accepts and
\* declines, the inviter cancels.
MayAnswer(r) ==
    r.user = IF r.handler = "invitations.cancel" THEN r.pre.invitations[r.id].inviter
             ELSE r.pre.invitations[r.id].invitee

C29_AnswerOfPendingSucceeds ==
    \A s \in Slots :
        (/\ Done(s) /\ Answers(req[s]) /\ MayAnswer(req[s])
         /\ req[s].pre.invitations[req[s].id].status = "pending"
         /\ ~invitations[req[s].id].expired
         /\ ~hist.rejected)
        => /\ req[s].status = 200
           /\ invitations[req[s].id].status =
                 CASE req[s].handler = "invitations.accept"  -> "accepted"
                   [] req[s].handler = "invitations.decline" -> "declined"
                   [] req[s].handler = "invitations.cancel"  -> "cancelled"

\* C30: once an accept request has ended, also when one of its store writes
\* failed, an invitation it made accepted has its invitee among the stored
\* members of the board: with the role of the invitation when the accept
\* added the user, with the role the user had when already a member.
C30_AcceptedImpliesMember ==
    \A s \in Slots :
        (/\ Done(s) /\ Answers(req[s]) /\ req[s].handler = "invitations.accept"
         /\ req[s].pre.invitations[req[s].id].status = "pending"
         /\ invitations[req[s].id].status = "accepted")
        => LET invitation == invitations[req[s].id]
               before == req[s].pre.boards[invitation.board]
               board == boards[invitation.board]
           IN  getUserRole(board, invitation.invitee)
                  = IF isMember(before, invitation.invitee)
                    THEN getUserRole(before, invitation.invitee)
                    ELSE invitation.role

=============================================================================
